---- MODULE Spec2Model ----
(***************************************************************************)
(* A model of the binary SVG codecs of compressedPhil: the varint / zigzag *)
(* integer codec, the dictionary colour codec, the generic path-data codec *)
(* and the tag-dispatch decode loops of the per-trait decompressors.       *)
(*                                                                         *)
(* Buffers are sequences of bytes 0..255; offsets are 0-based as in the    *)
(* source, so byte i of a buffer b is b[i + 1].  JavaScript's 32-bit       *)
(* integer operators (<<, >>, >>>, |, ^, &) are modelled on the signed     *)
(* 32-bit range.                                                           *)
(***************************************************************************)
EXTENDS Integers, Sequences, FiniteSets, TLC

VARIABLES
    vpc,      \* varint harness: position ("start", "encodedU", ..., "idle")
    num,      \* varint harness: the integer handed to the encoder
    vbuf,     \* varint harness: the byte buffer
    voff,     \* varint harness: the offset handed to the decoder
    vres,     \* varint harness: the decoder's result record
    cpc,      \* colour harness: position ("start", "encoded", "decoded", "idle")
    cvariant, \* colour harness: which compressor / decompressor pair
    color,    \* colour harness: the colour string handed to encodeColor
    cbuf,     \* colour harness: the byte buffer
    cres,     \* colour harness: decodeColor's result record
    ppc,      \* path harness: position ("start", "compressed", "decoded", "idle")
    ptokens,  \* path harness: the tokens of the path data handed to the compressor
    pbuf,     \* path harness: the byte buffer
    pres,     \* path harness: decodePathData's result record
    gpc,      \* document harness: position ("start", "compressed", ..., "idle")
    gdoc,     \* document harness: the viewBox and the paths handed to compressSVG
    gdata,    \* document harness: the compressed data, base64 text
    gres,     \* document harness: the SVG that decompressSVG returns
    lpc,      \* decode loop: position ("loop", "done", "idle")
    ldecoder, \* decode loop: which decompressor runs ("Phil", "Spikes")
    lbuf,     \* decode loop: buffer
    loffset,  \* decode loop: offset
    lviewBox, \* decode loop: viewBox
    lelements,\* decode loop: the elements pushed so far (paths, gradients)
    lres,     \* decode loop: the SVG that decompressSVG returns
    lhist,    \* decode loop: history of the run (iterations and records so far,
              \* the offset before the last iteration, the records when the
              \* first unknown tag was read), kept for the properties only
    hpc,      \* header harness: position ("start", "done", "idle")
    hvariant, \* header harness: which compressor runs
    hinput,   \* header harness: the viewBox and what the element compressors
              \* return for the elements matched, in the order matched
    hdata,    \* header harness: the base64 text that compressSVG returns
    bpc,      \* batch driver: position ("files", "summary", "done", "thrown", "idle")
    bdriver,  \* batch driver: processSVGs or processCompressedFiles
    bfiles,   \* batch driver: the directory listing, each file with the step
              \* that fails for it
    bindex,   \* batch driver: the number of files the forEach has passed
    bresults, \* batch driver: the files that have an entry in results
    bsummary, \* batch driver: whether the summary file is written
    kpc,      \* svg_converter harness: position ("start", "encoded", "decoded", "idle")
    ksvg,     \* svg_converter harness: the SVG string handed to encodeSVG
    kbuf,     \* svg_converter harness: the buffer handed to decodeSVG
    kres,     \* svg_converter harness: what decodeSVG returns or throws
    fpc,      \* filter harness: position ("start", "compressed", "decoded", "idle")
    ffilter,  \* filter harness: the attributes compressFilter extracts from the filter
    frest,    \* filter harness: the bytes of the record that follows the filter
    fbuf,     \* filter harness: the byte buffer
    fres,     \* filter harness: what decompressFilter returns, and the marker read next
    npc,      \* nose path harness: position ("start", "encoded", "decoded", "idle")
    ntokens,  \* nose path harness: the commands and numbers of the path data d
    nbuf,     \* nose path harness: the byte buffer
    nres,     \* nose path harness: what decodePath returns
    qpc,      \* Phil path harness: position ("start", "encoded", "decoded", "idle")
    qcmds,    \* Phil path harness: the path commands handed to encodePath
    qbuf,     \* Phil path harness: the byte buffer
    qres,     \* Phil path harness: what decodePath returns
    tpc,      \* coordinate harness: position ("start", "encoded", "decoded", "idle")
    tcoord,   \* coordinate harness: the coordinate handed to encodeCoordinate, in tenths
    trest,    \* coordinate harness: the bytes written after the coordinate
    tbuf,     \* coordinate harness: the byte buffer
    tres,     \* coordinate harness: what decodeCoordinate returns
    ypc,      \* gradient reference harness: position ("start", "encoded", "decoded", "idle")
    yid,      \* gradient reference harness: the id of the gradient a fill refers to
    yrest,    \* gradient reference harness: the bytes written after the colour
    ybuf,     \* gradient reference harness: the byte buffer
    yres,     \* gradient reference harness: what decodeColor returns
    rpc,      \* two runs of the Bg decoder: position ("start", "loop", "stars", "idle")
    rbuf,     \* two runs of the Bg decoder: the buffer of the compressed data
    rparts,   \* two runs of the Bg decoder: the locals of the run under way (viewBox, rect, circles, defs, offset)
    rresults,  \* two runs of the Bg decoder: the SVG texts returned so far
    xpc,      \* viewBox harness: position ("start", "encoded", "decoded", "idle")
    xview,    \* viewBox harness: the viewBox handed to processViewBox
    xrest,    \* viewBox harness: the bytes written after the viewBox section
    xbuf,     \* viewBox harness: the byte buffer
    xres,     \* viewBox harness: what decodeViewBox returns
    jpc,      \* path count harness: position ("start", "compressed", "paths", "done", "idle")
    jpath,    \* path count harness: the path that extractPaths returns jcount times
    jcount,   \* path count harness: the number of paths extracted
    jbuf,     \* path count harness: the buffer of the compressed data
    joffset,  \* path count harness: currentOffset of decompressSVG
    jdecoded   \* path count harness: the number of path elements pushed

varsVarInt == <<vpc, num, vbuf, voff, vres>>
varsColor == <<cpc, cvariant, color, cbuf, cres>>
varsPath == <<ppc, ptokens, pbuf, pres>>
varsDoc == <<gpc, gdoc, gdata, gres>>
varsLoop == <<lpc, ldecoder, lbuf, loffset, lviewBox, lelements, lres, lhist>>
varsHeader == <<hpc, hvariant, hinput, hdata>>
varsBatch == <<bpc, bdriver, bfiles, bindex, bresults, bsummary>>
varsConverter == <<kpc, ksvg, kbuf, kres>>
varsFilter == <<fpc, ffilter, frest, fbuf, fres>>
varsNose == <<npc, ntokens, nbuf, nres>>
varsPhilPath == <<qpc, qcmds, qbuf, qres>>
varsCoord == <<tpc, tcoord, trest, tbuf, tres>>
varsGradient == <<ypc, yid, yrest, ybuf, yres>>
varsRuns == <<rpc, rbuf, rparts, rresults>>
varsViewBox == <<xpc, xview, xrest, xbuf, xres>>
varsCount == <<jpc, jpath, jcount, jbuf, joffset, jdecoded>>
vars == <<varsVarInt, varsColor, varsPath, varsDoc,
          varsLoop, varsHeader, varsBatch, varsConverter,
          varsFilter, varsNose, varsPhilPath, varsCoord,
          varsGradient, varsRuns, varsViewBox, varsCount>>

\* the variables each harness leaves alone
othersVarInt ==
    <<varsColor, varsPath, varsDoc, varsLoop,
      varsHeader, varsBatch, varsConverter, varsFilter,
      varsNose, varsPhilPath, varsCoord, varsGradient,
      varsRuns, varsViewBox, varsCount>>
othersColor ==
    <<varsVarInt, varsPath, varsDoc, varsLoop,
      varsHeader, varsBatch, varsConverter, varsFilter,
      varsNose, varsPhilPath, varsCoord, varsGradient,
      varsRuns, varsViewBox, varsCount>>
othersPath ==
    <<varsVarInt, varsColor, varsDoc, varsLoop,
      varsHeader, varsBatch, varsConverter, varsFilter,
      varsNose, varsPhilPath, varsCoord, varsGradient,
      varsRuns, varsViewBox, varsCount>>
othersDoc ==
    <<varsVarInt, varsColor, varsPath, varsLoop,
      varsHeader, varsBatch, varsConverter, varsFilter,
      varsNose, varsPhilPath, varsCoord, varsGradient,
      varsRuns, varsViewBox, varsCount>>
othersLoop ==
    <<varsVarInt, varsColor, varsPath, varsDoc,
      varsHeader, varsBatch, varsConverter, varsFilter,
      varsNose, varsPhilPath, varsCoord, varsGradient,
      varsRuns, varsViewBox, varsCount>>
othersHeader ==
    <<varsVarInt, varsColor, varsPath, varsDoc,
      varsLoop, varsBatch, varsConverter, varsFilter,
      varsNose, varsPhilPath, varsCoord, varsGradient,
      varsRuns, varsViewBox, varsCount>>
othersBatch ==
    <<varsVarInt, varsColor, varsPath, varsDoc,
      varsLoop, varsHeader, varsConverter, varsFilter,
      varsNose, varsPhilPath, varsCoord, varsGradient,
      varsRuns, varsViewBox, varsCount>>
othersConverter ==
    <<varsVarInt, varsColor, varsPath, varsDoc,
      varsLoop, varsHeader, varsBatch, varsFilter,
      varsNose, varsPhilPath, varsCoord, varsGradient,
      varsRuns, varsViewBox, varsCount>>
othersFilter ==
    <<varsVarInt, varsColor, varsPath, varsDoc,
      varsLoop, varsHeader, varsBatch, varsConverter,
      varsNose, varsPhilPath, varsCoord, varsGradient,
      varsRuns, varsViewBox, varsCount>>
othersNose ==
    <<varsVarInt, varsColor, varsPath, varsDoc,
      varsLoop, varsHeader, varsBatch, varsConverter,
      varsFilter, varsPhilPath, varsCoord, varsGradient,
      varsRuns, varsViewBox, varsCount>>
othersPhilPath ==
    <<varsVarInt, varsColor, varsPath, varsDoc,
      varsLoop, varsHeader, varsBatch, varsConverter,
      varsFilter, varsNose, varsCoord, varsGradient,
      varsRuns, varsViewBox, varsCount>>
othersCoord ==
    <<varsVarInt, varsColor, varsPath, varsDoc,
      varsLoop, varsHeader, varsBatch, varsConverter,
      varsFilter, varsNose, varsPhilPath, varsGradient,
      varsRuns, varsViewBox, varsCount>>
othersGradient ==
    <<varsVarInt, varsColor, varsPath, varsDoc,
      varsLoop, varsHeader, varsBatch, varsConverter,
      varsFilter, varsNose, varsPhilPath, varsCoord,
      varsRuns, varsViewBox, varsCount>>
othersRuns ==
    <<varsVarInt, varsColor, varsPath, varsDoc,
      varsLoop, varsHeader, varsBatch, varsConverter,
      varsFilter, varsNose, varsPhilPath, varsCoord,
      varsGradient, varsViewBox, varsCount>>
othersViewBox ==
    <<varsVarInt, varsColor, varsPath, varsDoc,
      varsLoop, varsHeader, varsBatch, varsConverter,
      varsFilter, varsNose, varsPhilPath, varsCoord,
      varsGradient, varsRuns, varsCount>>
othersCount ==
    <<varsVarInt, varsColor, varsPath, varsDoc,
      varsLoop, varsHeader, varsBatch, varsConverter,
      varsFilter, varsNose, varsPhilPath, varsCoord,
      varsGradient, varsRuns, varsViewBox>>

\* a harness that a specification does not exercise stays idle
IdleVarInt == vpc = "idle" /\ num = 0 /\ vbuf = <<>> /\ voff = 0 /\ vres = <<>>
IdleColor ==
    cpc = "idle" /\ cvariant = "none" /\ color = <<>> /\ cbuf = <<>> /\ cres = <<>>
IdlePath == ppc = "idle" /\ ptokens = <<>> /\ pbuf = <<>> /\ pres = <<>>
IdleDoc == gpc = "idle" /\ gdoc = <<>> /\ gdata = <<>> /\ gres = <<>>
IdleLoop ==
    /\ lpc = "idle" /\ ldecoder = "none" /\ lbuf = <<>> /\ loffset = 0
    /\ lviewBox = <<>> /\ lelements = <<>> /\ lres = <<>> /\ lhist = <<>>
IdleHeader == hpc = "idle" /\ hvariant = "none" /\ hinput = <<>> /\ hdata = <<>>
IdleBatch ==
    /\ bpc = "idle" /\ bdriver = "none" /\ bfiles = <<>> /\ bindex = 0
    /\ bresults = {} /\ bsummary = FALSE
IdleConverter == kpc = "idle" /\ ksvg = <<>> /\ kbuf = <<>> /\ kres = <<>>
IdleFilter ==
    /\ fpc = "idle" /\ ffilter = <<>> /\ frest = <<>> /\ fbuf = <<>> /\ fres = <<>>
IdleNose ==
    /\ npc = "idle" /\ ntokens = <<>> /\ nbuf = <<>> /\ nres = <<>>
IdlePhilPath ==
    /\ qpc = "idle" /\ qcmds = <<>> /\ qbuf = <<>> /\ qres = <<>>
IdleCoord ==
    /\ tpc = "idle" /\ tcoord = 0 /\ trest = <<>> /\ tbuf = <<>> /\ tres = <<>>
IdleGradient ==
    /\ ypc = "idle" /\ yid = <<>> /\ yrest = <<>> /\ ybuf = <<>> /\ yres = <<>>
IdleRuns ==
    /\ rpc = "idle" /\ rbuf = <<>> /\ rparts = <<>> /\ rresults = <<>>
IdleViewBox ==
    /\ xpc = "idle" /\ xview = <<>> /\ xrest = <<>> /\ xbuf = <<>> /\ xres = <<>>
IdleCount ==
    /\ jpc = "idle" /\ jpath = <<>> /\ jcount = 0 /\ jbuf = <<>> /\ joffset = 0 /\ jdecoded = 0
OthersIdleVarInt ==
    /\ IdleColor /\ IdlePath /\ IdleDoc /\ IdleLoop
    /\ IdleHeader /\ IdleBatch /\ IdleConverter /\ IdleFilter
    /\ IdleNose /\ IdlePhilPath /\ IdleCoord /\ IdleGradient
    /\ IdleRuns /\ IdleViewBox /\ IdleCount
OthersIdleColor ==
    /\ IdleVarInt /\ IdlePath /\ IdleDoc /\ IdleLoop
    /\ IdleHeader /\ IdleBatch /\ IdleConverter /\ IdleFilter
    /\ IdleNose /\ IdlePhilPath /\ IdleCoord /\ IdleGradient
    /\ IdleRuns /\ IdleViewBox /\ IdleCount
OthersIdlePath ==
    /\ IdleVarInt /\ IdleColor /\ IdleDoc /\ IdleLoop
    /\ IdleHeader /\ IdleBatch /\ IdleConverter /\ IdleFilter
    /\ IdleNose /\ IdlePhilPath /\ IdleCoord /\ IdleGradient
    /\ IdleRuns /\ IdleViewBox /\ IdleCount
OthersIdleDoc ==
    /\ IdleVarInt /\ IdleColor /\ IdlePath /\ IdleLoop
    /\ IdleHeader /\ IdleBatch /\ IdleConverter /\ IdleFilter
    /\ IdleNose /\ IdlePhilPath /\ IdleCoord /\ IdleGradient
    /\ IdleRuns /\ IdleViewBox /\ IdleCount
OthersIdleLoop ==
    /\ IdleVarInt /\ IdleColor /\ IdlePath /\ IdleDoc
    /\ IdleHeader /\ IdleBatch /\ IdleConverter /\ IdleFilter
    /\ IdleNose /\ IdlePhilPath /\ IdleCoord /\ IdleGradient
    /\ IdleRuns /\ IdleViewBox /\ IdleCount
OthersIdleHeader ==
    /\ IdleVarInt /\ IdleColor /\ IdlePath /\ IdleDoc
    /\ IdleLoop /\ IdleBatch /\ IdleConverter /\ IdleFilter
    /\ IdleNose /\ IdlePhilPath /\ IdleCoord /\ IdleGradient
    /\ IdleRuns /\ IdleViewBox /\ IdleCount
OthersIdleBatch ==
    /\ IdleVarInt /\ IdleColor /\ IdlePath /\ IdleDoc
    /\ IdleLoop /\ IdleHeader /\ IdleConverter /\ IdleFilter
    /\ IdleNose /\ IdlePhilPath /\ IdleCoord /\ IdleGradient
    /\ IdleRuns /\ IdleViewBox /\ IdleCount
OthersIdleConverter ==
    /\ IdleVarInt /\ IdleColor /\ IdlePath /\ IdleDoc
    /\ IdleLoop /\ IdleHeader /\ IdleBatch /\ IdleFilter
    /\ IdleNose /\ IdlePhilPath /\ IdleCoord /\ IdleGradient
    /\ IdleRuns /\ IdleViewBox /\ IdleCount
OthersIdleFilter ==
    /\ IdleVarInt /\ IdleColor /\ IdlePath /\ IdleDoc
    /\ IdleLoop /\ IdleHeader /\ IdleBatch /\ IdleConverter
    /\ IdleNose /\ IdlePhilPath /\ IdleCoord /\ IdleGradient
    /\ IdleRuns /\ IdleViewBox /\ IdleCount
OthersIdleNose ==
    /\ IdleVarInt /\ IdleColor /\ IdlePath /\ IdleDoc
    /\ IdleLoop /\ IdleHeader /\ IdleBatch /\ IdleConverter
    /\ IdleFilter /\ IdlePhilPath /\ IdleCoord /\ IdleGradient
    /\ IdleRuns /\ IdleViewBox /\ IdleCount
OthersIdlePhilPath ==
    /\ IdleVarInt /\ IdleColor /\ IdlePath /\ IdleDoc
    /\ IdleLoop /\ IdleHeader /\ IdleBatch /\ IdleConverter
    /\ IdleFilter /\ IdleNose /\ IdleCoord /\ IdleGradient
    /\ IdleRuns /\ IdleViewBox /\ IdleCount
OthersIdleCoord ==
    /\ IdleVarInt /\ IdleColor /\ IdlePath /\ IdleDoc
    /\ IdleLoop /\ IdleHeader /\ IdleBatch /\ IdleConverter
    /\ IdleFilter /\ IdleNose /\ IdlePhilPath /\ IdleGradient
    /\ IdleRuns /\ IdleViewBox /\ IdleCount
OthersIdleGradient ==
    /\ IdleVarInt /\ IdleColor /\ IdlePath /\ IdleDoc
    /\ IdleLoop /\ IdleHeader /\ IdleBatch /\ IdleConverter
    /\ IdleFilter /\ IdleNose /\ IdlePhilPath /\ IdleCoord
    /\ IdleRuns /\ IdleViewBox /\ IdleCount
OthersIdleRuns ==
    /\ IdleVarInt /\ IdleColor /\ IdlePath /\ IdleDoc
    /\ IdleLoop /\ IdleHeader /\ IdleBatch /\ IdleConverter
    /\ IdleFilter /\ IdleNose /\ IdlePhilPath /\ IdleCoord
    /\ IdleGradient /\ IdleViewBox /\ IdleCount
OthersIdleViewBox ==
    /\ IdleVarInt /\ IdleColor /\ IdlePath /\ IdleDoc
    /\ IdleLoop /\ IdleHeader /\ IdleBatch /\ IdleConverter
    /\ IdleFilter /\ IdleNose /\ IdlePhilPath /\ IdleCoord
    /\ IdleGradient /\ IdleRuns /\ IdleCount
OthersIdleCount ==
    /\ IdleVarInt /\ IdleColor /\ IdlePath /\ IdleDoc
    /\ IdleLoop /\ IdleHeader /\ IdleBatch /\ IdleConverter
    /\ IdleFilter /\ IdleNose /\ IdlePhilPath /\ IdleCoord
    /\ IdleGradient /\ IdleRuns /\ IdleViewBox

-----------------------------------------------------------------------------
(* 32-bit integer arithmetic of JavaScript, on values in -2^31 .. 2^31 - 1 *)

Pow2(k) == 2 ^ k

Half31 == Pow2(30)

\* the low 31 bits of an int32, as a number in 0 .. 2^31 - 1
Low31(x) == IF x >= 0 THEN x ELSE (x + Half31) + Half31

\* the sign bit of an int32
Sign(x) == x < 0

\* the int32 with low 31 bits l and sign bit s
MkInt32(l, s) == IF s THEN (l - Half31) - Half31 ELSE l

RECURSIVE BitOrN(_, _, _)
BitOrN(a, b, k) ==
    IF k = 0 \/ (a = 0 /\ b = 0) THEN 0
    ELSE (IF a % 2 = 1 \/ b % 2 = 1 THEN 1 ELSE 0)
         + 2 * BitOrN(a \div 2, b \div 2, k - 1)

RECURSIVE BitXorN(_, _, _)
BitXorN(a, b, k) ==
    IF k = 0 \/ (a = 0 /\ b = 0) THEN 0
    ELSE (IF (a % 2) # (b % 2) THEN 1 ELSE 0)
         + 2 * BitXorN(a \div 2, b \div 2, k - 1)

\* x | y
BitOr(x, y) == MkInt32(BitOrN(Low31(x), Low31(y), 31), Sign(x) \/ Sign(y))

\* x ^ y
BitXor(x, y) == MkInt32(BitXorN(Low31(x), Low31(y), 31), Sign(x) # Sign(y))

\* x << s, the shift count taken modulo 32
Shl(x, s) ==
    LET k == s % 32 IN
    IF k = 0 THEN x
    ELSE MkInt32((Low31(x) % Pow2(31 - k)) * Pow2(k),
                 (Low31(x) \div Pow2(31 - k)) % 2 = 1)

\* x >> 31
Sar31(x) == IF x < 0 THEN -1 ELSE 0

\* x >>> s for 1 <= s <= 31: the result is non-negative
Ushr(x, s) == (Low31(x) \div Pow2(s)) + (IF Sign(x) THEN Pow2(31 - s) ELSE 0)

-----------------------------------------------------------------------------
(* Buffers *)

\* what indexing a Buffer outside 0 .. length - 1 yields
Undefined == 0 - 1

\* buffer[i]
ReadByte(buffer, i) ==
    IF i >= 0 /\ i < Len(buffer) THEN buffer[i + 1] ELSE Undefined

\* b & 0x7F and b & 0x80 (undefined converts to 0)
And7F(b) == IF b = Undefined THEN 0 ELSE b % 128
And80(b) == IF b = Undefined THEN 0 ELSE (b \div 128) * 128

\* Buffer.from([v]): the value is stored modulo 256
ToByte(v) == v % 256

-----------------------------------------------------------------------------
(* encodeVarInt / encodeSignedVarInt (compress.js) *)

RECURSIVE EncodeVarIntLoop(_, _)
EncodeVarIntLoop(n, bytes) ==
    IF n >= 128
    THEN EncodeVarIntLoop(Ushr(n, 7), Append(bytes, And7F(n) + 128))
    ELSE Append(bytes, ToByte(n))

\* a plausible slip: the loop tests num > 128
RECURSIVE EncodeVarIntLoopGt(_, _)
EncodeVarIntLoopGt(n, bytes) ==
    IF n > 128
    THEN EncodeVarIntLoopGt(Ushr(n, 7), Append(bytes, And7F(n) + 128))
    ELSE Append(bytes, ToByte(n))

EncodeVarIntGt(n) == IF n = 0 THEN <<0>> ELSE EncodeVarIntLoopGt(n, <<>>)

EncodeVarInt(n) == IF n = 0 THEN <<0>> ELSE EncodeVarIntLoop(n, <<>>)

\* a plausible slip: the sign is not folded in
ZigZagNoSign(n) == Shl(n, 1)

ZigZag(n) == BitXor(Shl(n, 1), Sar31(n))

EncodeSignedVarInt(n) == EncodeVarInt(ZigZag(n))

-----------------------------------------------------------------------------
(* decodeVarInt / decodeSignedVarInt (decompress.js) *)

Thrown(read) == [thrown |-> TRUE, value |-> 0, bytesRead |-> read, oob |-> FALSE]

RECURSIVE DecodeVarIntLoop(_, _, _, _, _, _)
DecodeVarIntLoop(buffer, offset, result, shift, bytesRead, oob) ==
    IF offset + bytesRead >= Len(buffer)
    THEN [thrown |-> TRUE, value |-> 0, bytesRead |-> bytesRead, oob |-> oob]
    ELSE LET currentByte == ReadByte(buffer, offset + bytesRead)
             r == BitOr(result, Shl(And7F(currentByte), shift))
             o == oob \/ currentByte = Undefined
         IN  IF And80(currentByte) # 0
             THEN DecodeVarIntLoop(buffer, offset, r, shift + 7, bytesRead + 1, o)
             ELSE [thrown |-> FALSE, value |-> r,
                   bytesRead |-> bytesRead + 1, oob |-> o]

\* a plausible slip: no bounds check before the read
RECURSIVE DecodeVarIntLoopNoCheck(_, _, _, _, _, _)
DecodeVarIntLoopNoCheck(buffer, offset, result, shift, bytesRead, oob) ==
    LET currentByte == ReadByte(buffer, offset + bytesRead)
        r == BitOr(result, Shl(And7F(currentByte), shift))
        o == oob \/ currentByte = Undefined
    IN  IF And80(currentByte) # 0
        THEN DecodeVarIntLoopNoCheck(buffer, offset, r, shift + 7, bytesRead + 1, o)
        ELSE [thrown |-> FALSE, value |-> r,
              bytesRead |-> bytesRead + 1, oob |-> o]

DecodeVarIntNoCheck(buffer, offset) ==
    DecodeVarIntLoopNoCheck(buffer, offset, 0, 0, 0, FALSE)

\* a plausible slip: the shift advances by 8
RECURSIVE DecodeVarIntLoopShift8(_, _, _, _, _, _)
DecodeVarIntLoopShift8(buffer, offset, result, shift, bytesRead, oob) ==
    IF offset + bytesRead >= Len(buffer)
    THEN [thrown |-> TRUE, value |-> 0, bytesRead |-> bytesRead, oob |-> oob]
    ELSE LET currentByte == ReadByte(buffer, offset + bytesRead)
             r == BitOr(result, Shl(And7F(currentByte), shift))
         IN  IF And80(currentByte) # 0
             THEN DecodeVarIntLoopShift8(buffer, offset, r, shift + 8,
                                         bytesRead + 1, oob)
             ELSE [thrown |-> FALSE, value |-> r,
                   bytesRead |-> bytesRead + 1, oob |-> oob]

DecodeVarIntShift8(buffer, offset) ==
    DecodeVarIntLoopShift8(buffer, offset, 0, 0, 0, FALSE)

DecodeVarInt(buffer, offset) == DecodeVarIntLoop(buffer, offset, 0, 0, 0, FALSE)

\* (value >>> 1) ^ (-(value & 1))
UnZigZag(value) == BitXor(Ushr(value, 1), 0 - (value % 2))

DecodeSignedVarInt(buffer, offset) ==
    LET d == DecodeVarInt(buffer, offset) IN
    IF d.thrown THEN d
    ELSE [thrown |-> FALSE, value |-> UnZigZag(d.value),
          bytesRead |-> d.bytesRead, oob |-> d.oob]

-----------------------------------------------------------------------------
(* Inputs of the integer codec *)

\* values of one 7-bit group
GroupSamples == {0, 1, 2, 63, 64, 126, 127}

\* every integer 0 .. DenseMax is an input
DenseMax == 300

\* the claims' ranges: [0, 2^28) unsigned, (-2^27, 2^27) signed
VarIntLimit == Pow2(28)
SignedLimit == Pow2(27)

GroupedSamples ==
    { g0 + 128 * g1 + 16384 * g2 + 2097152 * g3 :
        g0 \in GroupSamples, g1 \in GroupSamples,
        g2 \in GroupSamples, g3 \in GroupSamples }

UnsignedSamples == GroupedSamples \cup (0 .. DenseMax)

SignedSamples ==
    { n \in UnsignedSamples : n < SignedLimit }
    \cup { 0 - n : n \in { m \in UnsignedSamples : m < SignedLimit } }

\* bytes of raw (possibly malformed) buffers, and their greatest length
RawBytes == {0, 1, 127, 128, 255}
MaxRawLen == 4

RawBuffers == UNION { [1 .. k -> RawBytes] : k \in 0 .. MaxRawLen }

\* raw buffers of five and six bytes: the fifth group is shifted by 28 and the
\* sixth by 35, which the 32-bit << takes as 3
LongBuffers ==
    { <<250, 255, 255, 255, 15>>, <<128, 128, 128, 128, 8>>,
      <<128, 128, 128, 128, 7>>, <<255, 255, 255, 255, 127>>,
      <<128, 128, 128, 128, 128, 1>>, <<255, 255, 255, 255, 255, 127>> }

NoResult == [thrown |-> FALSE, value |-> 0, bytesRead |-> 0, oob |-> FALSE]

-----------------------------------------------------------------------------
(* The integer codec as a state machine: a number is encoded and the bytes *)
(* decoded at offset 0, or a raw buffer is decoded at an arbitrary offset. *)

StartVarInt ==
    \/ /\ vpc = "start"
       /\ num \in UnsignedSamples \cup SignedSamples
       /\ vbuf = <<>>
       /\ voff = 0
       /\ vres = NoResult
    \/ /\ vpc = "raw"
       /\ num = 0
       /\ \E b \in RawBuffers \cup LongBuffers : \E o \in 0 .. Len(b) + 1 : vbuf = b /\ voff = o
       /\ vres = NoResult

CallEncodeVarInt ==
    /\ vpc = "start"
    /\ num >= 0
    /\ vbuf' = EncodeVarInt(num)
    /\ vpc' = "encodedU"
    /\ UNCHANGED <<num, voff, vres, othersVarInt>>

CallEncodeSignedVarInt ==
    /\ vpc = "start"
    /\ num < SignedLimit
    /\ vbuf' = EncodeSignedVarInt(num)
    /\ vpc' = "encodedS"
    /\ UNCHANGED <<num, voff, vres, othersVarInt>>

CallDecodeVarInt ==
    /\ vpc \in {"encodedU", "raw"}
    /\ vres' = DecodeVarInt(vbuf, voff)
    /\ vpc' = IF vpc = "raw" THEN "decodedRaw" ELSE "decodedU"
    /\ UNCHANGED <<num, vbuf, voff, othersVarInt>>

CallDecodeSignedVarInt ==
    /\ vpc = "encodedS"
    /\ vres' = DecodeSignedVarInt(vbuf, voff)
    /\ vpc' = "decodedS"
    /\ UNCHANGED <<num, vbuf, voff, othersVarInt>>

NextVarInt ==
    \/ CallEncodeVarInt
    \/ CallEncodeSignedVarInt
    \/ CallDecodeVarInt
    \/ CallDecodeSignedVarInt

InitVarInt == StartVarInt /\ OthersIdleVarInt
SpecVarInt == InitVarInt /\ [][NextVarInt]_vars

-----------------------------------------------------------------------------
(* Claims about the integer codec, checked under SpecVarInt *)

\* C1: for 0 <= n < 2^28, decodeVarInt at offset 0 of encodeVarInt(n) returns
\* value n and bytesRead equal to the number of bytes encodeVarInt produced.
C1_VarIntRoundTrip ==
    vpc = "decodedU" =>
        /\ ~vres.thrown
        /\ vres.value = num
        /\ vres.bytesRead = Len(vbuf)

C1_Witness == vpc = "decodedU" /\ num >= Pow2(21) /\ vres.bytesRead = 4

\* C2: for -2^27 < n < 2^27, decodeSignedVarInt of encodeSignedVarInt(n)
\* returns value n (zigzag (n << 1) ^ (n >> 31), inverse (v >>> 1) ^ -(v & 1)).
C2_SignedRoundTrip ==
    vpc = "decodedS" => ~vres.thrown /\ vres.value = num

C2_Witness == vpc = "decodedS" /\ num < 0 - Pow2(20) /\ vres.bytesRead = 4

\* every byte of buffer from offset on has its high bit set
AllHighFrom(buffer, offset) ==
    \A i \in offset .. Len(buffer) - 1 : buffer[i + 1] >= 128

\* C9: if every byte from offset to the end has its high bit set, or offset is
\* at or past the end, decodeVarInt throws and returns no value; it never
\* reads a byte at an index >= buffer.length.
C9_TruncatedVarIntThrows ==
    vpc \in {"decodedRaw", "decodedU", "decodedS"} =>
        /\ ~vres.oob
        /\ (voff >= Len(vbuf) \/ AllHighFrom(vbuf, voff)) => vres.thrown

C9_Witness ==
    /\ vpc = "decodedRaw"
    /\ voff < Len(vbuf)
    /\ Len(vbuf) - voff >= 2
    /\ AllHighFrom(vbuf, voff)
    /\ vres.thrown

\* the number of 7-bit groups of n, 0 < n < 2^28
GroupCount(n) ==
    CHOOSE k \in 1 .. 4 : n >= Pow2(7 * (k - 1)) /\ (k = 4 \/ n < Pow2(7 * k))

\* C10: encodeVarInt(0) is the single byte 0, and for 0 < n < 2^28
\* encodeVarInt(n) is the minimal sequence of 7-bit groups of n, least
\* significant first, every byte but the last with its high bit set.
C10_MinimalGroups ==
    vpc = "encodedU" =>
        /\ num = 0 => vbuf = <<0>>
        /\ num > 0 =>
            /\ Len(vbuf) = GroupCount(num)
            /\ \A i \in 1 .. Len(vbuf) :
                /\ vbuf[i] % 128 = (num \div Pow2(7 * (i - 1))) % 128
                /\ (vbuf[i] >= 128) <=> (i < Len(vbuf))

C10_Witness == vpc = "encodedU" /\ num > Pow2(14) /\ Len(vbuf) = 3

-----------------------------------------------------------------------------
(* JavaScript strings: a string is a sequence of characters, a character   *)
(* is a one-character string.  The characters of code 32 .. 126 are        *)
(* themselves; the backquote and a character of any other code are written *)
(* "<XX>", XX the code in hexadecimal.                                     *)

\* the characters by code, code 0 first
CharTable == <<
    "<00>", "<01>", "<02>", "<03>", "<04>", "<05>", "<06>", "<07>",
    "<08>", "<09>", "<0A>", "<0B>", "<0C>", "<0D>", "<0E>", "<0F>",
    "<10>", "<11>", "<12>", "<13>", "<14>", "<15>", "<16>", "<17>",
    "<18>", "<19>", "<1A>", "<1B>", "<1C>", "<1D>", "<1E>", "<1F>",
    " ", "!", "\"", "#", "$", "%", "&", "'",
    "(", ")", "*", "+", ",", "-", ".", "/",
    "0", "1", "2", "3", "4", "5", "6", "7",
    "8", "9", ":", ";", "<", "=", ">", "?",
    "@", "A", "B", "C", "D", "E", "F", "G",
    "H", "I", "J", "K", "L", "M", "N", "O",
    "P", "Q", "R", "S", "T", "U", "V", "W",
    "X", "Y", "Z", "[", "\\", "]", "^", "_",
    "<60>", "a", "b", "c", "d", "e", "f", "g",
    "h", "i", "j", "k", "l", "m", "n", "o",
    "p", "q", "r", "s", "t", "u", "v", "w",
    "x", "y", "z", "{", "|", "}", "~", "<7F>",
    "<80>", "<81>", "<82>", "<83>", "<84>", "<85>", "<86>", "<87>",
    "<88>", "<89>", "<8A>", "<8B>", "<8C>", "<8D>", "<8E>", "<8F>",
    "<90>", "<91>", "<92>", "<93>", "<94>", "<95>", "<96>", "<97>",
    "<98>", "<99>", "<9A>", "<9B>", "<9C>", "<9D>", "<9E>", "<9F>",
    "<A0>", "<A1>", "<A2>", "<A3>", "<A4>", "<A5>", "<A6>", "<A7>",
    "<A8>", "<A9>", "<AA>", "<AB>", "<AC>", "<AD>", "<AE>", "<AF>",
    "<B0>", "<B1>", "<B2>", "<B3>", "<B4>", "<B5>", "<B6>", "<B7>",
    "<B8>", "<B9>", "<BA>", "<BB>", "<BC>", "<BD>", "<BE>", "<BF>",
    "<C0>", "<C1>", "<C2>", "<C3>", "<C4>", "<C5>", "<C6>", "<C7>",
    "<C8>", "<C9>", "<CA>", "<CB>", "<CC>", "<CD>", "<CE>", "<CF>",
    "<D0>", "<D1>", "<D2>", "<D3>", "<D4>", "<D5>", "<D6>", "<D7>",
    "<D8>", "<D9>", "<DA>", "<DB>", "<DC>", "<DD>", "<DE>", "<DF>",
    "<E0>", "<E1>", "<E2>", "<E3>", "<E4>", "<E5>", "<E6>", "<E7>",
    "<E8>", "<E9>", "<EA>", "<EB>", "<EC>", "<ED>", "<EE>", "<EF>",
    "<F0>", "<F1>", "<F2>", "<F3>", "<F4>", "<F5>", "<F6>", "<F7>",
    "<F8>", "<F9>", "<FA>", "<FB>", "<FC>", "<FD>", "<FE>", "<FF>" >>

\* s.charCodeAt(0) and String.fromCharCode(b) for a byte b
CharCode(c) == (CHOOSE i \in 1 .. 256 : CharTable[i] = c) - 1
FromCharCode(b) == CharTable[b + 1]

\* s[i] for a 1-based i, the empty string where JavaScript gives undefined
CharAt(s, i) == IF i >= 1 /\ i <= Len(s) THEN s[i] ELSE ""

\* c.toUpperCase() for one character with a code below 128
UpperChar(c) ==
    IF CharCode(c) >= 97 /\ CharCode(c) <= 122
    THEN FromCharCode(CharCode(c) - 32) ELSE c

\* s.toUpperCase()
ToUpperCase(s) == [i \in 1 .. Len(s) |-> UpperChar(s[i])]

\* s.startsWith(prefix)
StartsWith(s, prefix) ==
    /\ Len(s) >= Len(prefix)
    /\ \A i \in 1 .. Len(prefix) : s[i] = prefix[i]

\* s.slice(from) for 0 <= from
Slice(s, from) == SubSeq(s, from + 1, Len(s))

\* s.substring(from, to) for 0 <= from <= to
Substring(s, from, to) ==
    IF from >= Len(s) THEN <<>>
    ELSE SubSeq(s, from + 1, IF to < Len(s) THEN to ELSE Len(s))

\* Buffer.from(s): the UTF-8 bytes of a string of characters below 256
RECURSIVE Utf8(_)
Utf8(s) ==
    IF s = <<>> THEN <<>>
    ELSE LET c == CharCode(Head(s)) IN
         (IF c < 128 THEN <<c>> ELSE <<192 + (c \div 64), 128 + (c % 64)>>)
         \o Utf8(Tail(s))

\* the value of a hexadecimal digit, NotADigit for any other character
NotADigit == 0 - 1
HexDigits == <<"0", "1", "2", "3", "4", "5", "6", "7",
               "8", "9", "a", "b", "c", "d", "e", "f">>
HexValue(c) ==
    LET l == IF CharCode(c) >= 65 /\ CharCode(c) <= 90
             THEN FromCharCode(CharCode(c) + 32) ELSE c
    IN IF \E i \in 1 .. 16 : HexDigits[i] = l
       THEN (CHOOSE i \in 1 .. 16 : HexDigits[i] = l) - 1
       ELSE NotADigit

\* parseInt(s, 16) for a string with no sign, prefix or leading blank: the
\* value of the longest prefix of hexadecimal digits, NaN if it is empty
NaN == 0 - 2
RECURSIVE ParseHexPrefix(_, _, _)
ParseHexPrefix(s, i, acc) ==
    IF i > Len(s) \/ HexValue(s[i]) = NotADigit THEN acc
    ELSE ParseHexPrefix(s, i + 1, acc * 16 + HexValue(s[i]))
ParseInt16(s) ==
    IF s = <<>> \/ HexValue(s[1]) = NotADigit THEN NaN
    ELSE ParseHexPrefix(s, 1, 0)

\* Buffer.from([v]) for a number or NaN
ToByteOrNaN(v) == IF v = NaN THEN 0 ELSE ToByte(v)

\* n.toString(16)
RECURSIVE NatToString16(_)
NatToString16(n) ==
    IF n < 16 THEN <<HexDigits[n + 1]>>
    ELSE Append(NatToString16(n \div 16), HexDigits[(n % 16) + 1])
ToString16(n) ==
    IF n >= 0 THEN NatToString16(n) ELSE <<"-">> \o NatToString16(0 - n)

\* a variant of padStart that pads nothing
PadStartNone(s, n, c) == s

\* s.padStart(n, c)
PadStart(s, n, c) ==
    IF Len(s) >= n THEN s ELSE [i \in 1 .. n - Len(s) |-> c] \o s

-----------------------------------------------------------------------------
(* The colour dictionaries.  A compressor's COLOR_DICT maps a key to its   *)
(* code and is written as pairs <<key, code>>; a decompressor's COLOR_DICT *)
(* maps a code to its key and is written as pairs <<code, key>>.           *)

\* COLOR_DICT of compress.js
COLOR_DICT_compress == <<
    <<<<"0", "0", "0", "0", "0", "0">>, 1>>,
    <<<<"F", "F", "F", "F", "F", "F">>, 2>>,
    <<<<"8", "0", "8", "0", "8", "0">>, 3>>,
    <<<<"F", "F", "0", "0", "0", "0">>, 4>>,
    <<<<"0", "0", "F", "F", "0", "0">>, 5>>,
    <<<<"0", "0", "0", "0", "F", "F">>, 6>>,
    <<<<"F", "F", "F", "F", "0", "0">>, 7>>,
    <<<<"0", "0", "F", "F", "F", "F">>, 8>>,
    <<<<"F", "F", "0", "0", "F", "F">>, 9>>,
    <<<<"C", "0", "C", "0", "C", "0">>, 10>>,
    <<<<"F", "F", "A", "5", "0", "0">>, 11>>,
    <<<<"8", "0", "0", "0", "0", "0">>, 12>>,
    <<<<"0", "0", "8", "0", "0", "0">>, 13>>,
    <<<<"0", "0", "0", "0", "8", "0">>, 14>>,
    <<<<"8", "0", "0", "0", "8", "0">>, 15>>,
    <<<<"9", "9", "9", "9", "9", "9">>, 16>>,
    <<<<"3", "3", "3", "3", "3", "3">>, 17>>,
    <<<<"C", "C", "C", "C", "C", "C">>, 18>>,
    <<<<"n", "o", "n", "e">>, 0>> >>

\* COLOR_DICT of decompress.js
COLOR_DICT_decompress == <<
    <<1, <<"0", "0", "0", "0", "0", "0">>>>,
    <<2, <<"F", "F", "F", "F", "F", "F">>>>,
    <<3, <<"8", "0", "8", "0", "8", "0">>>>,
    <<4, <<"F", "F", "0", "0", "0", "0">>>>,
    <<5, <<"0", "0", "F", "F", "0", "0">>>>,
    <<6, <<"0", "0", "0", "0", "F", "F">>>>,
    <<7, <<"F", "F", "F", "F", "0", "0">>>>,
    <<8, <<"0", "0", "F", "F", "F", "F">>>>,
    <<9, <<"F", "F", "0", "0", "F", "F">>>>,
    <<10, <<"C", "0", "C", "0", "C", "0">>>>,
    <<11, <<"F", "F", "A", "5", "0", "0">>>>,
    <<12, <<"8", "0", "0", "0", "0", "0">>>>,
    <<13, <<"0", "0", "8", "0", "0", "0">>>>,
    <<14, <<"0", "0", "0", "0", "8", "0">>>>,
    <<15, <<"8", "0", "0", "0", "8", "0">>>>,
    <<16, <<"9", "9", "9", "9", "9", "9">>>>,
    <<17, <<"3", "3", "3", "3", "3", "3">>>>,
    <<18, <<"C", "C", "C", "C", "C", "C">>>>,
    <<0, <<"n", "o", "n", "e">>>> >>

\* COLOR_DICT of workingScripts/workingPhilCompress.js
COLOR_DICT_PhilCompress == <<
    <<<<"0", "0", "0", "0", "0", "0">>, 1>>,
    <<<<"F", "F", "F", "F", "F", "F">>, 2>>,
    <<<<"8", "0", "8", "0", "8", "0">>, 3>>,
    <<<<"0", "D", "0", "0", "F", "F">>, 4>>,
    <<<<"5", "8", "5", "8", "F", "F">>, 5>>,
    <<<<"0", "0", "B", "7", "F", "F">>, 6>>,
    <<<<"6", "6", "C", "9", "F", "F">>, 7>>,
    <<<<"F", "F", "0", "0", "0", "0">>, 8>>,
    <<<<"0", "0", "F", "F", "0", "0">>, 9>>,
    <<<<"0", "0", "0", "0", "F", "F">>, 10>>,
    <<<<"F", "F", "F", "F", "0", "0">>, 11>>,
    <<<<"0", "0", "F", "F", "F", "F">>, 12>>,
    <<<<"F", "F", "0", "0", "F", "F">>, 13>>,
    <<<<"0", "8", "0", "0", "5", "5">>, 14>>,
    <<<<"n", "o", "n", "e">>, 0>> >>

\* COLOR_DICT of workingScripts/workingPhilCompress.js
COLOR_DICT_PhilDecompress == <<
    <<1, <<"0", "0", "0", "0", "0", "0">>>>,
    <<2, <<"F", "F", "F", "F", "F", "F">>>>,
    <<3, <<"8", "0", "8", "0", "8", "0">>>>,
    <<4, <<"0", "D", "0", "0", "F", "F">>>>,
    <<5, <<"5", "8", "5", "8", "F", "F">>>>,
    <<6, <<"0", "0", "B", "7", "F", "F">>>>,
    <<7, <<"6", "6", "C", "9", "F", "F">>>>,
    <<8, <<"F", "F", "0", "0", "0", "0">>>>,
    <<9, <<"0", "0", "F", "F", "0", "0">>>>,
    <<10, <<"0", "0", "0", "0", "F", "F">>>>,
    <<11, <<"F", "F", "F", "F", "0", "0">>>>,
    <<12, <<"0", "0", "F", "F", "F", "F">>>>,
    <<13, <<"F", "F", "0", "0", "F", "F">>>>,
    <<14, <<"0", "8", "0", "0", "5", "5">>>>,
    <<0, <<"n", "o", "n", "e">>>> >>

\* COLOR_DICT of workingCompressionScripts/top/noGlitchTopCompress.js
COLOR_DICT_TopCompress == <<
    <<<<"0", "0", "0", "0", "0", "0">>, 1>>,
    <<<<"F", "F", "F", "F", "F", "F">>, 2>>,
    <<<<"8", "0", "8", "0", "8", "0">>, 3>>,
    <<<<"F", "F", "0", "0", "0", "0">>, 4>>,
    <<<<"0", "0", "F", "F", "0", "0">>, 5>>,
    <<<<"0", "0", "0", "0", "F", "F">>, 6>>,
    <<<<"F", "F", "F", "F", "0", "0">>, 7>>,
    <<<<"0", "0", "F", "F", "F", "F">>, 8>>,
    <<<<"F", "F", "0", "0", "F", "F">>, 9>>,
    <<<<"C", "0", "C", "0", "C", "0">>, 10>>,
    <<<<"A", "0", "A", "0", "A", "0">>, 11>>,
    <<<<"D", "0", "D", "0", "D", "0">>, 12>>,
    <<<<"F", "F", "A", "5", "0", "0">>, 13>>,
    <<<<"8", "0", "0", "0", "8", "0">>, 14>>,
    <<<<"0", "0", "B", "F", "F", "F">>, 15>>,
    <<<<"7", "8", "5", "D", "0", "6">>, 16>>,
    <<<<"4", "A", "8", "0", "1", "9">>, 17>>,
    <<<<"A", "0", "9", "D", "F", "6">>, 18>>,
    <<<<"3", "1", "B", "9", "1", "5">>, 19>>,
    <<<<"n", "o", "n", "e">>, 0>> >>

\* COLOR_DICT of workingCompressionScripts/top/noGlitchTopDecompress.js
COLOR_DICT_TopDecompress == <<
    <<1, <<"0", "0", "0", "0", "0", "0">>>>,
    <<2, <<"F", "F", "F", "F", "F", "F">>>>,
    <<3, <<"8", "0", "8", "0", "8", "0">>>>,
    <<4, <<"F", "F", "0", "0", "0", "0">>>>,
    <<5, <<"0", "0", "F", "F", "0", "0">>>>,
    <<6, <<"0", "0", "0", "0", "F", "F">>>>,
    <<7, <<"F", "F", "F", "F", "0", "0">>>>,
    <<8, <<"0", "0", "F", "F", "F", "F">>>>,
    <<9, <<"F", "F", "0", "0", "F", "F">>>>,
    <<10, <<"C", "0", "C", "0", "C", "0">>>>,
    <<11, <<"A", "0", "A", "0", "A", "0">>>>,
    <<12, <<"D", "0", "D", "0", "D", "0">>>>,
    <<13, <<"F", "F", "A", "5", "0", "0">>>>,
    <<14, <<"8", "0", "0", "0", "8", "0">>>>,
    <<15, <<"0", "0", "B", "F", "F", "F">>>>,
    <<16, <<"7", "8", "5", "D", "0", "6">>>>,
    <<17, <<"4", "A", "8", "0", "1", "9">>>>,
    <<18, <<"A", "0", "9", "D", "F", "6">>>>,
    <<19, <<"3", "1", "B", "9", "1", "5">>>>,
    <<0, <<"n", "o", "n", "e">>>> >>

\* COLOR_DICT of workingCompressionScripts/top/missingOutlineCompress.js
COLOR_DICT_NoseCompress == <<
    <<<<"0", "0", "0", "0", "0", "0">>, 1>>,
    <<<<"F", "F", "F", "F", "F", "F">>, 2>>,
    <<<<"8", "0", "8", "0", "8", "0">>, 3>>,
    <<<<"F", "F", "0", "0", "0", "0">>, 4>>,
    <<<<"0", "0", "F", "F", "0", "0">>, 5>>,
    <<<<"0", "0", "0", "0", "F", "F">>, 6>>,
    <<<<"F", "F", "F", "F", "0", "0">>, 7>>,
    <<<<"0", "0", "F", "F", "F", "F">>, 8>>,
    <<<<"F", "F", "0", "0", "F", "F">>, 9>>,
    <<<<"7", "F", "0", "0", "F", "F">>, 10>>,
    <<<<"F", "F", "7", "F", "0", "0">>, 11>>,
    <<<<"7", "F", "F", "F", "0", "0">>, 12>>,
    <<<<"0", "0", "F", "F", "7", "F">>, 13>>,
    <<<<"0", "0", "7", "F", "F", "F">>, 14>>,
    <<<<"F", "F", "0", "0", "7", "F">>, 15>>,
    <<<<"5", "0", "3", "0", "2", "0">>, 16>>,
    <<<<"6", "4", "2", "8", "1", "4">>, 17>>,
    <<<<"4", "6", "1", "E", "1", "4">>, 18>>,
    <<<<"3", "C", "3", "C", "3", "2">>, 19>>,
    <<<<"5", "A", "2", "D", "2", "3">>, 20>>,
    <<<<"3", "2", "1", "E", "2", "8">>, 21>>,
    <<<<"4", "6", "3", "2", "1", "4">>, 22>>,
    <<<<"2", "8", "3", "C", "1", "E">>, 23>>,
    <<<<"5", "5", "2", "3", "2", "D">>, 24>>,
    <<<<"3", "C", "2", "8", "3", "C">>, 25>>,
    <<<<"n", "o", "n", "e">>, 0>> >>

\* COLOR_DICT of workingCompressionScripts/nose/decompressNose.js
COLOR_DICT_NoseDecompress == <<
    <<1, <<"0", "0", "0", "0", "0", "0">>>>,
    <<2, <<"F", "F", "F", "F", "F", "F">>>>,
    <<3, <<"8", "0", "8", "0", "8", "0">>>>,
    <<4, <<"F", "F", "0", "0", "0", "0">>>>,
    <<5, <<"0", "0", "F", "F", "0", "0">>>>,
    <<6, <<"0", "0", "0", "0", "F", "F">>>>,
    <<7, <<"F", "F", "F", "F", "0", "0">>>>,
    <<8, <<"0", "0", "F", "F", "F", "F">>>>,
    <<9, <<"F", "F", "0", "0", "F", "F">>>>,
    <<10, <<"7", "F", "0", "0", "F", "F">>>>,
    <<11, <<"F", "F", "7", "F", "0", "0">>>>,
    <<12, <<"7", "F", "F", "F", "0", "0">>>>,
    <<13, <<"0", "0", "F", "F", "7", "F">>>>,
    <<14, <<"0", "0", "7", "F", "F", "F">>>>,
    <<15, <<"F", "F", "0", "0", "7", "F">>>>,
    <<16, <<"5", "0", "3", "0", "2", "0">>>>,
    <<17, <<"6", "4", "2", "8", "1", "4">>>>,
    <<18, <<"4", "6", "1", "E", "1", "4">>>>,
    <<19, <<"3", "C", "3", "C", "3", "2">>>>,
    <<20, <<"5", "A", "2", "D", "2", "3">>>>,
    <<21, <<"3", "2", "1", "E", "2", "8">>>>,
    <<22, <<"4", "6", "3", "2", "1", "4">>>>,
    <<23, <<"2", "8", "3", "C", "1", "E">>>>,
    <<24, <<"5", "5", "2", "3", "2", "D">>>>,
    <<25, <<"3", "C", "2", "8", "3", "C">>>>,
    <<0, <<"n", "o", "n", "e">>>> >>

\* COLOR_DICT of workingCompressionScripts/spikes/compressSpikes.js
COLOR_DICT_SpikesCompress == <<
    <<<<"0", "0", "0", "0", "0", "0">>, 1>>,
    <<<<"F", "F", "F", "F", "F", "F">>, 2>>,
    <<<<"F", "F", "0", "0", "0", "0">>, 3>>,
    <<<<"0", "0", "F", "F", "0", "0">>, 4>>,
    <<<<"0", "0", "0", "0", "F", "F">>, 5>>,
    <<<<"n", "o", "n", "e">>, 0>> >>

\* COLOR_DICT of workingCompressionScripts/spikes/decompressSpikes.js
COLOR_DICT_SpikesDecompress == <<
    <<1, <<"0", "0", "0", "0", "0", "0">>>>,
    <<2, <<"F", "F", "F", "F", "F", "F">>>>,
    <<3, <<"F", "F", "0", "0", "0", "0">>>>,
    <<4, <<"0", "0", "F", "F", "0", "0">>>>,
    <<5, <<"0", "0", "0", "0", "F", "F">>>>,
    <<0, <<"n", "o", "n", "e">>>> >>

\* COLOR_DICT of workingCompressionScripts/Bg/compressBg.js
COLOR_DICT_BgCompress == <<
    <<<<"0", "0", "0", "0", "0", "0">>, 1>>,
    <<<<"F", "F", "F", "F", "F", "F">>, 2>>,
    <<<<"8", "0", "8", "0", "8", "0">>, 3>>,
    <<<<"F", "F", "0", "0", "0", "0">>, 4>>,
    <<<<"0", "0", "F", "F", "0", "0">>, 5>>,
    <<<<"0", "0", "0", "0", "F", "F">>, 6>>,
    <<<<"F", "F", "F", "F", "0", "0">>, 7>>,
    <<<<"0", "0", "F", "F", "F", "F">>, 8>>,
    <<<<"F", "F", "0", "0", "F", "F">>, 9>>,
    <<<<"C", "0", "C", "0", "C", "0">>, 10>>,
    <<<<"E", "8", "A", "8", "5", "2">>, 11>>,
    <<<<"2", "9", "4", "D", "7", "A">>, 12>>,
    <<<<"D", "6", "7", "D", "3", "E">>, 13>>,
    <<<<"A", "6", "5", "4", "A", "D">>, 14>>,
    <<<<"6", "6", "C", "C", "F", "F">>, 15>>,
    <<<<"F", "F", "D", "B", "9", "9">>, 16>>,
    <<<<"n", "o", "n", "e">>, 0>> >>

\* COLOR_DICT of workingCompressionScripts/Bg/decompressBg.js
COLOR_DICT_BgDecompress == <<
    <<1, <<"0", "0", "0", "0", "0", "0">>>>,
    <<2, <<"F", "F", "F", "F", "F", "F">>>>,
    <<3, <<"8", "0", "8", "0", "8", "0">>>>,
    <<4, <<"F", "F", "0", "0", "0", "0">>>>,
    <<5, <<"0", "0", "F", "F", "0", "0">>>>,
    <<6, <<"0", "0", "0", "0", "F", "F">>>>,
    <<7, <<"F", "F", "F", "F", "0", "0">>>>,
    <<8, <<"0", "0", "F", "F", "F", "F">>>>,
    <<9, <<"F", "F", "0", "0", "F", "F">>>>,
    <<10, <<"C", "0", "C", "0", "C", "0">>>>,
    <<11, <<"E", "8", "A", "8", "5", "2">>>>,
    <<12, <<"2", "9", "4", "D", "7", "A">>>>,
    <<13, <<"D", "6", "7", "D", "3", "E">>>>,
    <<14, <<"A", "6", "5", "4", "A", "D">>>>,
    <<15, <<"6", "6", "C", "C", "F", "F">>>>,
    <<16, <<"F", "F", "D", "B", "9", "9">>>>,
    <<0, <<"n", "o", "n", "e">>>> >>

-----------------------------------------------------------------------------
(* encodeColor and decodeColor of the six compressor / decompressor pairs  *)

\* COLOR_DICT[key] of a compressor, Undefined for a missing key
DictCode(dict, key) ==
    IF \E i \in 1 .. Len(dict) : dict[i][1] = key
    THEN dict[CHOOSE i \in 1 .. Len(dict) : dict[i][1] = key][2]
    ELSE Undefined

\* if (COLOR_DICT[key]): the entry exists and its code is not 0
DictHas(dict, key) == DictCode(dict, key) # Undefined /\ DictCode(dict, key) # 0

\* a variant of the lookup that takes the entry at position code + 1
DictKeyByPosition(dict, code) == dict[code + 1][2]

\* COLOR_DICT[code] !== undefined and COLOR_DICT[code] of a decompressor
DictDefined(dict, code) == \E i \in 1 .. Len(dict) : dict[i][1] = code
DictKey(dict, code) == dict[CHOOSE i \in 1 .. Len(dict) : dict[i][1] = code][2]

StrNone == <<"n", "o", "n", "e">>
StrRgb == <<"r", "g", "b">>
StrHash == <<"#">>
StrUrlHash == <<"u", "r", "l", "(", "#">>
StrBlack == <<"b", "l", "a", "c", "k">>
StrWhite == <<"w", "h", "i", "t", "e">>
Str000000 == <<"0", "0", "0", "0", "0", "0">>
StrFFFFFF == <<"F", "F", "F", "F", "F", "F">>

\* \s and \d of a regular expression
IsSpace(c) == c \in {" ", "<09>", "<0A>", "<0B>", "<0C>", "<0D>", "<A0>"}
IsDigit(c) == c \in {"0", "1", "2", "3", "4", "5", "6", "7", "8", "9"}

\* the first index from i on that \s* (resp. \d*) does not consume
RECURSIVE SkipSpaces(_, _)
SkipSpaces(s, i) == IF IsSpace(CharAt(s, i)) THEN SkipSpaces(s, i + 1) ELSE i
RECURSIVE SkipDigits(_, _)
SkipDigits(s, i) == IF IsDigit(CharAt(s, i)) THEN SkipDigits(s, i + 1) ELSE i

\* Number(d) / parseInt(d) of the digits s[i .. j - 1]
RECURSIVE ParseDec(_, _, _)
ParseDec(s, i, j) ==
    IF i >= j THEN 0 ELSE ParseDec(s, i, j - 1) * 10 + HexValue(s[j - 1])

\* the groups of /rgb\(\s*(\d+)\s*,\s*(\d+)\s*,\s*(\d+)\s*\)/ matched at index
\* p (loose), or of /rgb\((\d+),\s*(\d+),\s*(\d+)\)/ (not loose); <<>> if the
\* expression does not match there
MatchRgbAt(s, p, loose) ==
    LET a1 == IF loose THEN SkipSpaces(s, p + 4) ELSE p + 4
        a2 == SkipDigits(s, a1)
        b0 == IF loose THEN SkipSpaces(s, a2) ELSE a2
        b1 == SkipSpaces(s, b0 + 1)
        b2 == SkipDigits(s, b1)
        c0 == IF loose THEN SkipSpaces(s, b2) ELSE b2
        c1 == SkipSpaces(s, c0 + 1)
        c2 == SkipDigits(s, c1)
        d0 == IF loose THEN SkipSpaces(s, c2) ELSE c2
    IN IF /\ CharAt(s, p) = "r" /\ CharAt(s, p + 1) = "g"
          /\ CharAt(s, p + 2) = "b" /\ CharAt(s, p + 3) = "("
          /\ a2 > a1 /\ CharAt(s, b0) = ","
          /\ b2 > b1 /\ CharAt(s, c0) = ","
          /\ c2 > c1 /\ CharAt(s, d0) = ")"
       THEN <<ParseDec(s, a1, a2), ParseDec(s, b1, b2), ParseDec(s, c1, c2)>>
       ELSE <<>>

\* color.match(expression): the groups of the leftmost match, <<>> for null
MatchRgb(s, loose) ==
    IF \E p \in 1 .. Len(s) : MatchRgbAt(s, p, loose) # <<>>
    THEN MatchRgbAt(s, CHOOSE p \in 1 .. Len(s) :
                           /\ MatchRgbAt(s, p, loose) # <<>>
                           /\ \A q \in 1 .. p - 1 : MatchRgbAt(s, q, loose) = <<>>,
                    loose)
    ELSE <<>>

\* ((r << 16) | (g << 8) | b).toString(16).padStart(6, '0').toUpperCase()
RgbHex(m) ==
    ToUpperCase(PadStart(ToString16(BitOr(BitOr(Shl(m[1], 16), Shl(m[2], 8)), m[3])),
                         6, "0"))

\* hex.split('').map(c => c + c).join('')
RECURSIVE DoubleChars(_)
DoubleChars(s) ==
    IF s = <<>> THEN <<>> ELSE <<Head(s), Head(s)>> \o DoubleChars(Tail(s))

\* the end of every encodeColor: the dictionary code, else 254 and the bytes
EncodeHex(dict, hex) ==
    IF DictHas(dict, hex) THEN <<DictCode(dict, hex)>>
    ELSE <<254,
           ToByteOrNaN(ParseInt16(Substring(hex, 0, 2))),
           ToByteOrNaN(ParseInt16(Substring(hex, 2, 4))),
           ToByteOrNaN(ParseInt16(Substring(hex, 4, 6)))>>

\* encodeColor of compress.js
EncodeColor(c) ==
    IF c = <<>> \/ c = StrNone THEN <<0>>
    ELSE LET hex ==
                 IF StartsWith(c, StrHash)
                 THEN LET h == ToUpperCase(Slice(c, 1)) IN
                      IF Len(h) = 3 THEN DoubleChars(h) ELSE h
                 ELSE IF StartsWith(c, StrRgb)
                 THEN IF MatchRgb(c, TRUE) # <<>>
                      THEN RgbHex(MatchRgb(c, TRUE)) ELSE Str000000
                 ELSE IF DictHas(COLOR_DICT_compress, ToUpperCase(c))
                 THEN ToUpperCase(c)
                 ELSE Str000000
         IN EncodeHex(COLOR_DICT_compress, hex)

\* rgbToHex of workingPhilCompress.js
RgbToHexPhil(rgb) ==
    IF rgb = <<>> THEN StrNone
    ELSE IF MatchRgb(rgb, TRUE) # <<>> THEN RgbHex(MatchRgb(rgb, TRUE))
    ELSE IF StartsWith(rgb, StrHash) THEN ToUpperCase(Slice(rgb, 1))
    ELSE IF rgb = StrBlack THEN Str000000
    ELSE IF rgb = StrWhite THEN StrFFFFFF
    ELSE Str000000

\* rgbToHex of noGlitchTopCompress.js and of the nose compressor
RgbToHexTop(rgb) ==
    IF rgb = <<>> \/ rgb = StrNone THEN StrNone ELSE RgbToHexPhil(rgb)

\* encodeColor of the Phil, top and nose compressors, which differ in their
\* dictionary and their rgbToHex only; rgbHex is rgbToHex(color)
EncodeColorWith(dict, rgbHex, c) ==
    IF c = <<>> \/ c = StrNone THEN <<0>>
    ELSE LET hex == IF StartsWith(c, StrRgb) THEN rgbHex
                    ELSE IF StartsWith(c, StrHash) THEN ToUpperCase(Slice(c, 1))
                    ELSE Str000000
         IN EncodeHex(dict, hex)

EncodeColorPhil(c) == EncodeColorWith(COLOR_DICT_PhilCompress, RgbToHexPhil(c), c)
EncodeColorTop(c) == EncodeColorWith(COLOR_DICT_TopCompress, RgbToHexTop(c), c)
EncodeColorNose(c) == EncodeColorWith(COLOR_DICT_NoseCompress, RgbToHexTop(c), c)

\* color.match(/#([^...]*)/)[1]: the characters after the first '#' up to the
\* first character of the set stop
RECURSIVE TakeUntil(_, _, _)
TakeUntil(s, i, stop) ==
    IF i > Len(s) \/ s[i] \in stop THEN <<>>
    ELSE <<s[i]>> \o TakeUntil(s, i + 1, stop)
GradientId(s, stop) ==
    TakeUntil(s, (CHOOSE p \in 1 .. Len(s) :
                      s[p] = "#" /\ \A q \in 1 .. p - 1 : s[q] # "#") + 1, stop)

\* encodeColor of compressSpikes.js
EncodeColorSpikes(c) ==
    IF c = <<>> \/ c = StrNone THEN <<0>>
    ELSE IF StartsWith(c, StrUrlHash)
    THEN LET gradientId ==
                 GradientId(c, {"\"", "'", ")", " ", "<09>", "<0A>", "<0B>",
                                "<0C>", "<0D>", "<A0>"})
         IN <<255>> \o EncodeVarInt(Len(gradientId)) \o Utf8(gradientId)
    ELSE LET hex == IF StartsWith(c, StrHash) THEN ToUpperCase(Slice(c, 1)) ELSE c
         IN EncodeHex(COLOR_DICT_SpikesCompress, hex)

\* encodeColor of compressBg.js
EncodeColorBg(c) ==
    IF c = <<>> \/ c = StrNone THEN <<0>>
    ELSE IF StartsWith(c, StrUrlHash)
    THEN <<255>> \o Utf8(GradientId(c, {"\""}))
    ELSE LET hex ==
                 IF StartsWith(c, StrHash)
                 THEN LET h == ToUpperCase(Slice(c, 1)) IN
                      IF Len(h) = 3 THEN DoubleChars(h) ELSE h
                 ELSE IF StartsWith(c, StrRgb)
                 THEN IF MatchRgb(c, FALSE) # <<>>
                      THEN RgbHex(MatchRgb(c, FALSE)) ELSE Str000000
                 ELSE Str000000
         IN EncodeHex(COLOR_DICT_BgCompress, hex)

\* the outcome of a decodeColor call: it threw, or it returned {color, bytesRead}
ColorThrown == [thrown |-> TRUE, color |-> <<>>, bytesRead |-> 0]
ColorResult(c, n) == [thrown |-> FALSE, color |-> c, bytesRead |-> n]

\* buffer[i].toString(16).padStart(2, '0')
HexByte(b) == PadStart(ToString16(b), 2, "0")

\* the dictionary and RGB cases common to every decodeColor; gradientRef is the
\* outcome for the colour code 255
DecodeColorWith(dict, buffer, offset, gradientRef) ==
    IF offset >= Len(buffer) THEN ColorThrown
    ELSE LET colorCode == ReadByte(buffer, offset) IN
         IF colorCode < 254 /\ DictDefined(dict, colorCode)
         THEN ColorResult(IF colorCode = 0 THEN StrNone
                          ELSE StrHash \o DictKey(dict, colorCode), 1)
         ELSE IF colorCode = 254
         THEN IF offset + 3 >= Len(buffer) THEN ColorThrown
              ELSE ColorResult(ToUpperCase(StrHash
                                   \o HexByte(ReadByte(buffer, offset + 1))
                                   \o HexByte(ReadByte(buffer, offset + 2))
                                   \o HexByte(ReadByte(buffer, offset + 3))), 4)
         ELSE IF colorCode = 255 THEN gradientRef
         ELSE ColorThrown

\* decodeColor of decompress.js and of the Phil, top and nose decompressors
DecodeColor(buffer, offset) ==
    DecodeColorWith(COLOR_DICT_decompress, buffer, offset, ColorThrown)
DecodeColorPhil(buffer, offset) ==
    DecodeColorWith(COLOR_DICT_PhilDecompress, buffer, offset, ColorThrown)
DecodeColorTop(buffer, offset) ==
    DecodeColorWith(COLOR_DICT_TopDecompress, buffer, offset, ColorThrown)
DecodeColorNose(buffer, offset) ==
    DecodeColorWith(COLOR_DICT_NoseDecompress, buffer, offset, ColorThrown)

StrUrlClose == <<")">>

\* the gradient reference of decodeColor in decompressSpikes.js
RECURSIVE ReadChars(_, _, _)
ReadChars(buffer, from, n) ==
    IF n <= 0 \/ from >= Len(buffer) THEN <<>>
    ELSE <<FromCharCode(buffer[from + 1])>> \o ReadChars(buffer, from + 1, n - 1)
GradientRefSpikes(buffer, offset) ==
    LET len == DecodeVarInt(buffer, offset + 1) IN
    IF len.thrown THEN ColorThrown
    ELSE ColorResult(StrUrlHash
                         \o ReadChars(buffer, offset + 1 + len.bytesRead, len.value)
                         \o StrUrlClose,
                     1 + len.bytesRead + len.value)

\* decodeColor of decompressSpikes.js
DecodeColorSpikes(buffer, offset) ==
    DecodeColorWith(COLOR_DICT_SpikesDecompress, buffer, offset,
                    GradientRefSpikes(buffer, offset))

\* the gradient reference of decodeColor in decompressBg.js
RECURSIVE ReadPrintable(_, _)
ReadPrintable(buffer, i) ==
    IF i < Len(buffer) /\ buffer[i + 1] >= 32 /\ buffer[i + 1] <= 126
    THEN <<FromCharCode(buffer[i + 1])>> \o ReadPrintable(buffer, i + 1)
    ELSE <<>>
GradientRefBg(buffer, offset) ==
    LET gradientId == ReadPrintable(buffer, offset + 1) IN
    ColorResult(StrUrlHash \o gradientId \o StrUrlClose, 1 + Len(gradientId))

\* decodeColor of decompressBg.js
DecodeColorBg(buffer, offset) ==
    DecodeColorWith(COLOR_DICT_BgDecompress, buffer, offset,
                    GradientRefBg(buffer, offset))

-----------------------------------------------------------------------------
(* The colour codec as a state machine: a colour string is encoded by one  *)
(* compressor and the bytes are decoded at offset 0 by its decompressor.   *)

Variants == {"Generic", "Phil", "Top", "Nose", "Spikes", "Bg"}

\* the compressor's dictionary, encodeColor and the decompressor's decodeColor
CompressDict(v) ==
    CASE v = "Generic" -> COLOR_DICT_compress
      [] v = "Phil" -> COLOR_DICT_PhilCompress
      [] v = "Top" -> COLOR_DICT_TopCompress
      [] v = "Nose" -> COLOR_DICT_NoseCompress
      [] v = "Spikes" -> COLOR_DICT_SpikesCompress
      [] v = "Bg" -> COLOR_DICT_BgCompress
EncodeColorOf(v, c) ==
    CASE v = "Generic" -> EncodeColor(c)
      [] v = "Phil" -> EncodeColorPhil(c)
      [] v = "Top" -> EncodeColorTop(c)
      [] v = "Nose" -> EncodeColorNose(c)
      [] v = "Spikes" -> EncodeColorSpikes(c)
      [] v = "Bg" -> EncodeColorBg(c)
DecodeColorOf(v, buffer, offset) ==
    CASE v = "Generic" -> DecodeColor(buffer, offset)
      [] v = "Phil" -> DecodeColorPhil(buffer, offset)
      [] v = "Top" -> DecodeColorTop(buffer, offset)
      [] v = "Nose" -> DecodeColorNose(buffer, offset)
      [] v = "Spikes" -> DecodeColorSpikes(buffer, offset)
      [] v = "Bg" -> DecodeColorBg(buffer, offset)

\* the colour strings handed to the encoders
UpperHexDigits == <<"0", "1", "2", "3", "4", "5", "6", "7",
                    "8", "9", "A", "B", "C", "D", "E", "F">>
LowerOf(c) ==
    CASE c = "A" -> "a" [] c = "B" -> "b" [] c = "C" -> "c"
      [] c = "D" -> "d" [] c = "E" -> "e" [] c = "F" -> "f" [] OTHER -> c

\* a key written with every choice of letter case
CaseVariants(key) ==
    { [i \in 1 .. Len(key) |-> IF i \in low THEN LowerOf(key[i]) ELSE key[i]] :
          low \in SUBSET (1 .. Len(key)) }

\* '#' and a key of the variant's dictionary, in every letter case
DictionaryColours(v) ==
    UNION { { StrHash \o k : k \in CaseVariants(CompressDict(v)[i][1]) } :
                i \in { j \in 1 .. Len(CompressDict(v)) :
                            CompressDict(v)[j][1] # StrNone } }

\* the colour components written out, and the strings of one RGB colour
ByteSamples == {0, 1, 16, 171, 255}
HexPair(b, digits) == <<digits[(b \div 16) + 1], digits[(b % 16) + 1]>>
HexOf(r, g, b, digits) ==
    HexPair(r, digits) \o HexPair(g, digits) \o HexPair(b, digits)
RECURSIVE DecString(_)
DecString(n) ==
    IF n < 10 THEN <<UpperHexDigits[n + 1]>>
    ELSE Append(DecString(n \div 10), UpperHexDigits[(n % 10) + 1])
RgbString(r, g, b, pre, post) ==
    <<"r", "g", "b", "(">> \o pre \o DecString(r) \o post \o <<",">> \o <<" ">>
        \o DecString(g) \o post \o <<",">> \o pre \o DecString(b) \o post \o <<")">>
RgbForms(r, g, b) ==
    { StrHash \o HexOf(r, g, b, UpperHexDigits),
      StrHash \o HexOf(r, g, b, HexDigits),
      RgbString(r, g, b, <<>>, <<>>),
      RgbString(r, g, b, <<" ">>, <<" ">>) }
RgbColours ==
    UNION { RgbForms(r, g, b) : <<r, g, b>> \in ByteSamples \X ByteSamples \X ByteSamples }

\* no colour, named colours, short hexadecimal forms and gradient references
OtherColours ==
    { <<>>, StrNone, StrBlack, StrWhite, <<"r", "e", "d">>,
      <<"#", "f", "f", "f">>, <<"#", "a", "B", "c">>,
      <<"u", "r", "l", "(", "#", "g", "1", ")">> }

\* colour strings that are no colour: too short, no hexadecimal digits, a
\* name that no compressor knows
MalformedColours ==
    { <<"#", "1", "2">>, <<"#", "G", "G", "G", "G", "G", "G">>, <<"r", "e", "d">> }

ColourInputs(v) ==
    DictionaryColours(v) \cup RgbColours \cup OtherColours \cup MalformedColours

StartColor ==
    /\ cpc = "start"
    /\ cvariant \in Variants
    /\ color \in ColourInputs(cvariant)
    /\ cbuf = <<>>
    /\ cres = <<>>

CallEncodeColor ==
    /\ cpc = "start"
    /\ cbuf' = EncodeColorOf(cvariant, color)
    /\ cpc' = "encoded"
    /\ UNCHANGED <<cvariant, color, cres, othersColor>>

CallDecodeColor ==
    /\ cpc = "encoded"
    /\ cres' = DecodeColorOf(cvariant, cbuf, 0)
    /\ cpc' = "decoded"
    /\ UNCHANGED <<cvariant, color, cbuf, othersColor>>

NextColor == CallEncodeColor \/ CallDecodeColor
InitColor == StartColor /\ OthersIdleColor
SpecColor == InitColor /\ [][NextColor]_vars

\* C3: in each of the six pairs, a dictionary colour written as '#' and its
\* key in any letter case, or as 'none', is encoded in one byte and decoded
\* to '#' and the key in upper case (or 'none') with bytesRead 1.
C3_DictionaryColourRoundTrip ==
    cpc = "decoded" =>
        /\ color = StrNone => cres = ColorResult(StrNone, 1) /\ Len(cbuf) = 1
        /\ \A i \in 1 .. Len(CompressDict(cvariant)) :
               LET key == CompressDict(cvariant)[i][1] IN
               (key # StrNone /\ color \in { StrHash \o k : k \in CaseVariants(key) })
                   => cres = ColorResult(StrHash \o key, 1) /\ Len(cbuf) = 1

C3_Witness ==
    /\ cpc = "decoded"
    /\ cvariant = "Bg"
    /\ color = <<"#", "e", "8", "A", "8", "5", "2">>
    /\ cres.color = <<"#", "E", "8", "A", "8", "5", "2">>
    /\ cres.bytesRead = 1

\* C4: the generic encodeColor turns an RGB colour that is not in the
\* dictionary into the bytes 254, r, g, b, and the generic decodeColor turns
\* them into '#RRGGBB' in upper case with bytesRead 4.
C4_RgbColourRoundTrip ==
    (cvariant = "Generic" /\ cpc \in {"encoded", "decoded"}) =>
        \A r \in ByteSamples, g \in ByteSamples, b \in ByteSamples :
            (/\ color \in RgbForms(r, g, b)
             /\ \A i \in 1 .. Len(COLOR_DICT_compress) :
                    COLOR_DICT_compress[i][1] # HexOf(r, g, b, UpperHexDigits))
                => /\ cbuf = <<254, r, g, b>>
                   /\ cpc = "decoded" =>
                          cres = ColorResult(StrHash \o HexOf(r, g, b, UpperHexDigits), 4)

C4_Witness ==
    /\ cpc = "decoded"
    /\ cvariant = "Generic"
    /\ color = <<"#", "0", "1", "f", "f", "a", "b">>
    /\ cbuf = <<254, 1, 255, 171>>
    /\ cres.color = <<"#", "0", "1", "F", "F", "A", "B">>
    /\ cres.bytesRead = 4

\* C11: in every pair, a colour string that is neither 'none' nor a
\* well-formed '#RRGGBB', '#RGB' or 'rgb(r,g,b)' value is encoded as black:
\* the bytes that encodeColor returns decode to '#000000'.
C11_MalformedIsBlack ==
    (cpc = "decoded" /\ color \in MalformedColours) =>
        ~cres.thrown /\ cres.color = StrHash \o Str000000

\* the generic encodeColor turns '#12' into 254 and the bytes 0x12, 0, 0
C11_Divergence ==
    /\ cpc = "decoded"
    /\ cvariant = "Generic"
    /\ color = <<"#", "1", "2">>
    /\ cbuf = <<254, 18, 0, 0>>
    /\ cres = ColorResult(<<"#", "1", "2", "0", "0", "0", "0">>, 4)

\* C12: the generic, Phil, top, nose and Bg compressors accept the named
\* colours: 'black' is encoded in bytes that decode to '#000000' and 'white'
\* in bytes that decode to '#FFFFFF'.
C12_NamedColours ==
    (cpc = "decoded" /\ cvariant \in {"Generic", "Phil", "Top", "Nose", "Bg"}) =>
        /\ color = StrBlack => ~cres.thrown /\ cres.color = StrHash \o Str000000
        /\ color = StrWhite => ~cres.thrown /\ cres.color = StrHash \o StrFFFFFF

\* the generic encodeColor finds no key 'WHITE' in COLOR_DICT and writes the
\* code of '000000'
C12_Divergence ==
    /\ cpc = "decoded"
    /\ cvariant = "Generic"
    /\ color = StrWhite
    /\ cbuf = <<DictCode(COLOR_DICT_compress, Str000000)>>
    /\ cres = ColorResult(StrHash \o Str000000, 1)

\* a '#' and three hexadecimal digits
IsShorthand(c) ==
    /\ Len(c) = 4
    /\ c[1] = "#"
    /\ \A i \in 2 .. 4 : HexValue(c[i]) # NotADigit

\* C13: in the generic, Phil, top, nose and Bg compressors the shorthand
\* '#RGB' is expanded by doubling each digit: encodeColor('#RGB') returns the
\* bytes that encodeColor('#RRGGBB') returns.
C13_ShorthandExpanded ==
    (/\ cpc \in {"encoded", "decoded"}
     /\ cvariant \in {"Generic", "Phil", "Top", "Nose", "Bg"}
     /\ IsShorthand(color))
        => cbuf = EncodeColorOf(cvariant, StrHash \o DoubleChars(Slice(color, 1)))

\* the Phil encodeColor takes 'FFF' as it is and writes 254 and the bytes of
\* 'FF', 'F' and ''
C13_Divergence ==
    /\ cpc = "encoded"
    /\ cvariant = "Phil"
    /\ color = <<"#", "f", "f", "f">>
    /\ cbuf = <<254, 255, 15, 0>>
    /\ EncodeColorPhil(<<"#", "f", "f", "f", "f", "f", "f">>)
           = <<DictCode(COLOR_DICT_PhilCompress, StrFFFFFF)>>

\* the generic and Bg compressors do expand the shorthand
C13_GenericAndBg ==
    (/\ cpc \in {"encoded", "decoded"}
     /\ cvariant \in {"Generic", "Bg"}
     /\ IsShorthand(color))
        => cbuf = EncodeColorOf(cvariant, StrHash \o DoubleChars(Slice(color, 1)))

-----------------------------------------------------------------------------
(* compressPathData (compress.js) and decodePathData (decompress.js).      *)
(* Path data is held as its tokens, the strings that split(' ') yields     *)
(* from path data written with blanks between commands and numbers: a      *)
(* command token is a letter, a number token is a decimal number held in   *)
(* hundredths.  A decoded number is held in units of 1/QUANTIZATION_SCALE  *)
(* until toFixed(2) prints it, again in hundredths.                        *)

QUANTIZATION_SCALE == 15

\* CMD_DICT of compress.js, as pairs <<letter, code>>
CMD_DICT_compress == <<
    <<"M", 1>>, <<"m", 2>>, <<"L", 3>>, <<"l", 4>>, <<"H", 5>>, <<"h", 6>>,
    <<"V", 7>>, <<"v", 8>>, <<"C", 9>>, <<"c", 10>>, <<"S", 11>>, <<"s", 12>>,
    <<"Q", 13>>, <<"q", 14>>, <<"T", 15>>, <<"t", 16>>, <<"A", 17>>, <<"a", 18>>,
    <<"Z", 19>>, <<"z", 19>> >>

\* CMD_DICT of decompress.js, as pairs <<code, letter>>
CMD_DICT_decompress == <<
    <<1, "M">>, <<2, "m">>, <<3, "L">>, <<4, "l">>, <<5, "H">>, <<6, "h">>,
    <<7, "V">>, <<8, "v">>, <<9, "C">>, <<10, "c">>, <<11, "S">>, <<12, "s">>,
    <<13, "Q">>, <<14, "q">>, <<15, "T">>, <<16, "t">>, <<17, "A">>, <<18, "a">>,
    <<19, "Z">> >>

CmdToken(l) == [kind |-> "cmd", letter |-> l, value |-> 0]
NumToken(h) == [kind |-> "num", letter |-> "", value |-> h]

\* lastCommand === lastCommand.toLowerCase() && lastCommand !== 'z' &&
\* lastCommand !== 'Z', for a command letter or the empty string
IsRelative(command) ==
    /\ command = "" \/ CharCode(command) < 65 \/ CharCode(command) > 90
    /\ command # "z"
    /\ command # "Z"

\* Math.round(delta * QUANTIZATION_SCALE) for a delta in hundredths
Quantize(delta) == (2 * QUANTIZATION_SCALE * delta + 100) \div 200

\* the loop of compressPathData from token i on: the values pushed on compressed
RECURSIVE CompressTokens(_, _, _, _, _)
CompressTokens(tokens, i, currentX, currentY, lastCommand) ==
    IF i >= Len(tokens) THEN <<>>
    ELSE LET token == tokens[i + 1] IN
         IF token.kind = "cmd"
         THEN IF DictHas(CMD_DICT_compress, token.letter)
              THEN <<DictCode(CMD_DICT_compress, token.letter)>>
                       \o CompressTokens(tokens, i + 1, currentX, currentY, token.letter)
              ELSE CompressTokens(tokens, i + 1, currentX, currentY, lastCommand)
         ELSE IF IsRelative(lastCommand) \/ lastCommand \in {"z", "Z"}
         THEN <<Quantize(token.value)>>
                  \o CompressTokens(tokens, i + 1, currentX, currentY, lastCommand)
         ELSE IF lastCommand = "H" \/ (lastCommand # "V" /\ i % 2 = 0)
         THEN <<Quantize(token.value - currentX)>>
                  \o CompressTokens(tokens, i + 1, token.value, currentY, lastCommand)
         ELSE <<Quantize(token.value - currentY)>>
                  \o CompressTokens(tokens, i + 1, currentX, token.value, lastCommand)

\* compressed.map(value => encodeSignedVarInt(value)) and Buffer.concat: every
\* element of compressed, command codes included, is a number
RECURSIVE ConcatSigned(_)
ConcatSigned(compressed) ==
    IF compressed = <<>> THEN <<>>
    ELSE EncodeSignedVarInt(Head(compressed)) \o ConcatSigned(Tail(compressed))

CompressPathData(tokens) == ConcatSigned(CompressTokens(tokens, 0, 0, 0, ""))

\* (n / QUANTIZATION_SCALE).toFixed(2) in hundredths, n the number of units
ToFixed2(n) == (200 * n + QUANTIZATION_SCALE) \div (2 * QUANTIZATION_SCALE)

\* the outcome of decodePathData: it threw, or it returned the path data
PathThrown == [thrown |-> TRUE, pathData |-> <<>>]
PathResult(tokens) == [thrown |-> FALSE, pathData |-> tokens]
PathCons(token, rest) ==
    IF rest.thrown THEN rest ELSE PathResult(<<token>> \o rest.pathData)

\* the while loop of decodePathData
RECURSIVE DecodePathLoop(_, _, _, _, _, _, _, _)
DecodePathLoop(buffer, currentOffset, endOffset, currentX, currentY, currentCommand, isFirstCoordinate, coordCount) ==
    IF currentOffset >= endOffset THEN PathResult(<<>>)
    ELSE LET nextByte == ReadByte(buffer, currentOffset)
             read == DecodeSignedVarInt(buffer, currentOffset)
             decodedNum == read.value
             first == IF coordCount + 1 = 2 THEN FALSE ELSE isFirstCoordinate
             isX == coordCount % 2 = 0
         IN IF nextByte >= 1 /\ nextByte <= 19 /\ DictDefined(CMD_DICT_decompress, nextByte)
            THEN PathCons(CmdToken(DictKey(CMD_DICT_decompress, nextByte)),
                          DecodePathLoop(buffer, currentOffset + 1, endOffset,
                                         currentX, currentY,
                                         DictKey(CMD_DICT_decompress, nextByte), TRUE, 0))
            ELSE IF read.thrown THEN PathThrown
            ELSE IF IsRelative(currentCommand)
            THEN PathCons(NumToken(ToFixed2(decodedNum)),
                          DecodePathLoop(buffer, currentOffset + read.bytesRead, endOffset,
                                         IF isX THEN currentX + decodedNum ELSE currentX,
                                         IF isX THEN currentY ELSE currentY + decodedNum,
                                         currentCommand, first, coordCount + 1))
            ELSE IF currentCommand = "H"
            THEN PathCons(NumToken(ToFixed2(currentX + decodedNum)),
                          DecodePathLoop(buffer, currentOffset + read.bytesRead, endOffset,
                                         currentX + decodedNum, currentY,
                                         currentCommand, first, coordCount + 1))
            ELSE IF currentCommand = "V"
            THEN PathCons(NumToken(ToFixed2(currentY + decodedNum)),
                          DecodePathLoop(buffer, currentOffset + read.bytesRead, endOffset,
                                         currentX, currentY + decodedNum,
                                         currentCommand, first, coordCount + 1))
            ELSE IF currentCommand # "Z" /\ currentCommand # "z"
            THEN LET abs == IF isFirstCoordinate THEN decodedNum
                            ELSE (IF isX THEN currentX ELSE currentY) + decodedNum
                 IN PathCons(NumToken(ToFixed2(abs)),
                             DecodePathLoop(buffer, currentOffset + read.bytesRead, endOffset,
                                            IF isX THEN abs ELSE currentX,
                                            IF isX THEN currentY ELSE abs,
                                            currentCommand, first, coordCount + 1))
            ELSE PathCons(NumToken(ToFixed2(decodedNum)),
                          DecodePathLoop(buffer, currentOffset + read.bytesRead, endOffset,
                                         currentX, currentY,
                                         currentCommand, first, coordCount + 1))

\* decodePathData(buffer, offset, length)
DecodePathData(buffer, offset, length) ==
    IF offset + length > Len(buffer) THEN PathThrown
    ELSE DecodePathLoop(buffer, offset, offset + length, 0, 0, "", TRUE, 0)

-----------------------------------------------------------------------------
(* The path-data codec as a state machine: the tokens of a path are        *)
(* compressed and the whole buffer is decoded.                             *)

\* coordinates in hundredths and the greatest number of L segments of a path
CoordSamples == {0, 1000, 0 - 20}
MaxSegments == 2

Point == { <<NumToken(x), NumToken(y)>> : x \in CoordSamples, y \in CoordSamples }
RECURSIVE LineTos(_)
LineTos(n) ==
    IF n = 0 THEN {<<>>}
    ELSE LineTos(n - 1)
         \cup { s \o <<CmdToken("L")>> \o p : s \in LineTos(n - 1), p \in Point }

\* M x y, then up to MaxSegments times L x y, then Z or nothing
PathInputs ==
    { <<CmdToken("M")>> \o p \o s \o z :
          p \in Point, s \in LineTos(MaxSegments), z \in {<<>>, <<CmdToken("Z")>>} }

\* the letters of CMD_DICT, and the path data of one command letter
CommandLetters == { CMD_DICT_compress[i][1] : i \in 1 .. Len(CMD_DICT_compress) }
LoneCommands == { <<CmdToken(l)>> : l \in CommandLetters }

StartPath ==
    /\ ppc = "start"
    /\ ptokens \in PathInputs \cup LoneCommands
    /\ pbuf = <<>>
    /\ pres = <<>>

CallCompressPathData ==
    /\ ppc = "start"
    /\ pbuf' = CompressPathData(ptokens)
    /\ ppc' = "compressed"
    /\ UNCHANGED <<ptokens, pres, othersPath>>

CallDecodePathData ==
    /\ ppc = "compressed"
    /\ pres' = DecodePathData(pbuf, 0, Len(pbuf))
    /\ ppc' = "decoded"
    /\ UNCHANGED <<ptokens, pbuf, othersPath>>

NextPath == CallCompressPathData \/ CallDecodePathData
InitPath == StartPath /\ OthersIdlePath
SpecPath == InitPath /\ [][NextPath]_vars

\* every coordinate of the path is a multiple of 1/QUANTIZATION_SCALE
IsQuantized(tokens) ==
    \A i \in 1 .. Len(tokens) :
        tokens[i].kind = "num" => (tokens[i].value * QUANTIZATION_SCALE) % 100 = 0

\* C5: for a path of absolute M, L and Z commands whose coordinates are
\* multiples of 1/QUANTIZATION_SCALE, decodePathData(compressPathData(d))
\* yields the same command letters in the same order, each followed by the same
\* coordinate values.
C5_PathRoundTrip ==
    (ppc = "decoded" /\ IsQuantized(ptokens)) =>
        ~pres.thrown /\ pres.pathData = ptokens

\* the path M 0 0 L 10 10 Z comes back as m 0.00 0.00 h 10.00 10.00 1.27
C5_Divergence ==
    /\ ppc = "decoded"
    /\ ptokens = <<CmdToken("M"), NumToken(0), NumToken(0),
                   CmdToken("L"), NumToken(1000), NumToken(1000), CmdToken("Z")>>
    /\ pbuf = <<2, 0, 0, 6, 172, 2, 172, 2, 38>>
    /\ pres = PathResult(<<CmdToken("m"), NumToken(0), NumToken(0),
                           CmdToken("h"), NumToken(1000), NumToken(1000),
                           NumToken(127)>>)

-----------------------------------------------------------------------------
(* processViewBox and compressSVG (compress.js), decodeViewBox and         *)
(* decompressSVG (decompress.js).  compressSVG is modelled from the paths  *)
(* and the viewBox that extractPaths and extractViewBox hand it.           *)

\* s.split(' '): the pieces between single blanks
RECURSIVE SplitAt(_, _, _)
SplitAt(s, i, piece) ==
    IF i > Len(s) THEN <<piece>>
    ELSE IF s[i] = " " THEN <<piece>> \o SplitAt(s, i + 1, <<>>)
    ELSE SplitAt(s, i + 1, Append(piece, s[i]))
Split(s) == SplitAt(s, 1, <<>>)

\* s.split(/\s+/): the pieces between runs of white space
RECURSIVE SplitRunsAt(_, _, _)
SplitRunsAt(s, i, piece) ==
    IF i > Len(s) THEN <<piece>>
    ELSE IF IsSpace(s[i]) THEN <<piece>> \o SplitRunsAt(s, SkipSpaces(s, i), <<>>)
    ELSE SplitRunsAt(s, i + 1, Append(piece, s[i]))
SplitRuns(s) == SplitRunsAt(s, 1, <<>>)

\* parseInt(s): white space, an optional sign and decimal digits; IsNaNInt(s)
\* when there is no digit, and NaN is written as 0 where an encoder takes it
\* (encodeVarInt(NaN) and encodeSignedVarInt(NaN) both give the byte 0)
ParseInt(s) ==
    LET a == SkipSpaces(s, 1)
        b == IF CharAt(s, a) \in {"+", "-"} THEN a + 1 ELSE a
        c == SkipDigits(s, b)
    IN IF c = b THEN 0
       ELSE IF CharAt(s, a) = "-" THEN 0 - ParseDec(s, b, c) ELSE ParseDec(s, b, c)
IsNaNInt(s) ==
    LET a == SkipSpaces(s, 1)
        b == IF CharAt(s, a) \in {"+", "-"} THEN a + 1 ELSE a
    IN SkipDigits(s, b) = b

\* `${n}` for an integer n
NumberToString(n) == IF n < 0 THEN <<"-">> \o DecString(0 - n) ELSE DecString(n)

\* a plausible slip: a viewBox at 0 0 is always written as a square
ProcessViewBoxSquare(viewBox) ==
    IF StartsWith(viewBox, <<"0", " ", "0", " ">>) /\ Len(Split(viewBox)) = 4
    THEN <<1>> \o EncodeVarInt(ParseInt(Split(viewBox)[3]))
    ELSE <<3>> \o EncodeSignedVarInt(ParseInt(SplitRuns(viewBox)[1]))
               \o EncodeSignedVarInt(ParseInt(SplitRuns(viewBox)[2]))
               \o EncodeVarInt(ParseInt(SplitRuns(viewBox)[3]))
               \o EncodeVarInt(ParseInt(SplitRuns(viewBox)[4]))

\* processViewBox
ProcessViewBox(viewBox) ==
    LET parts == Split(viewBox)
        ints == SplitRuns(viewBox)
    IN IF StartsWith(viewBox, <<"0", " ", "0", " ">>) /\ Len(parts) = 4
       THEN IF ~IsNaNInt(parts[3]) /\ ~IsNaNInt(parts[4])
               /\ ParseInt(parts[3]) = ParseInt(parts[4])
            THEN <<1>> \o EncodeVarInt(ParseInt(parts[3]))
            ELSE <<2>> \o EncodeVarInt(ParseInt(parts[3]))
                       \o EncodeVarInt(ParseInt(parts[4]))
       ELSE IF Len(ints) = 4
       THEN <<3>> \o EncodeSignedVarInt(ParseInt(ints[1]))
                  \o EncodeSignedVarInt(ParseInt(ints[2]))
                  \o EncodeVarInt(ParseInt(ints[3]))
                  \o EncodeVarInt(ParseInt(ints[4]))
       ELSE <<0>> \o EncodeVarInt(Len(Utf8(viewBox))) \o Utf8(viewBox)

\* the outcome of decodeViewBox: it threw, or it returned {viewBox, bytesRead}
ViewBoxThrown == [thrown |-> TRUE, viewBox |-> <<>>, bytesRead |-> 0]
ViewBoxResult(v, n) == [thrown |-> FALSE, viewBox |-> v, bytesRead |-> n]
StrZeroZero == <<"0", " ", "0", " ">>
StrBlank == <<" ">>

\* what a decoder of the decompressors returns: an exception, or a value and
\* the number of bytes read
RecordThrown == [thrown |-> TRUE, value |-> <<>>, bytesRead |-> 0]
RecordResult(v, n) == [thrown |-> FALSE, value |-> v, bytesRead |-> n]

\* the fields of a record read so far: whether a read has thrown, the offset
\* reached and the decoded fields in the order read
ReadStart(offset) == [thrown |-> FALSE, offset |-> offset, fields |-> <<>>]

\* the next field r read at st.offset; after an exception nothing is read
ReadField(st, r) ==
    IF st.thrown THEN st
    ELSE IF r.thrown THEN [st EXCEPT !.thrown = TRUE]
    ELSE [thrown |-> FALSE, offset |-> st.offset + r.bytesRead,
          fields |-> Append(st.fields, r)]

ReadVarInt(buffer, st) == ReadField(st, DecodeVarInt(buffer, st.offset))
ReadSignedVarInt(buffer, st) == ReadField(st, DecodeSignedVarInt(buffer, st.offset))

\* decodeViewBox for format 0, the length read: the text of that length
ViewBoxText(buffer, offset, st) ==
    IF st.thrown THEN ViewBoxThrown
    ELSE ViewBoxResult(ReadChars(buffer, st.offset, st.fields[1].value),
                       st.offset - offset + st.fields[1].value)

\* decodeViewBox for format 1, the size read
ViewBoxSquare(offset, st) ==
    IF st.thrown THEN ViewBoxThrown
    ELSE ViewBoxResult(StrZeroZero \o NumberToString(st.fields[1].value) \o StrBlank
                           \o NumberToString(st.fields[1].value),
                       st.offset - offset)

\* decodeViewBox for format 2, the width and the height read
ViewBoxSize(offset, st) ==
    IF st.thrown THEN ViewBoxThrown
    ELSE ViewBoxResult(StrZeroZero \o NumberToString(st.fields[1].value) \o StrBlank
                           \o NumberToString(st.fields[2].value),
                       st.offset - offset)

\* decodeViewBox for format 3, x, y, width and height read
ViewBoxFull(offset, st) ==
    IF st.thrown THEN ViewBoxThrown
    ELSE ViewBoxResult(NumberToString(st.fields[1].value) \o StrBlank
                           \o NumberToString(st.fields[2].value) \o StrBlank
                           \o NumberToString(st.fields[3].value) \o StrBlank
                           \o NumberToString(st.fields[4].value),
                       st.offset - offset)

\* decodeViewBox
DecodeViewBox(buffer, offset) ==
    IF offset >= Len(buffer) THEN ViewBoxThrown
    ELSE IF ReadByte(buffer, offset) = 0
    THEN ViewBoxText(buffer, offset, ReadVarInt(buffer, ReadStart(offset + 1)))
    ELSE IF ReadByte(buffer, offset) = 1
    THEN ViewBoxSquare(offset, ReadVarInt(buffer, ReadStart(offset + 1)))
    ELSE IF ReadByte(buffer, offset) = 2
    THEN ViewBoxSize(offset,
             ReadVarInt(buffer, ReadVarInt(buffer, ReadStart(offset + 1))))
    ELSE IF ReadByte(buffer, offset) = 3
    THEN ViewBoxFull(offset,
             ReadVarInt(buffer,
                 ReadVarInt(buffer,
                     ReadSignedVarInt(buffer,
                         ReadSignedVarInt(buffer, ReadStart(offset + 1))))))
    ELSE ViewBoxThrown

\* the base64 alphabet, combinedBuffer.toString('base64') and
\* Buffer.from(compressedData, 'base64')
Base64Chars == <<
    "A", "B", "C", "D", "E", "F", "G", "H", "I", "J", "K", "L", "M", "N", "O", "P",
    "Q", "R", "S", "T", "U", "V", "W", "X", "Y", "Z", "a", "b", "c", "d", "e", "f",
    "g", "h", "i", "j", "k", "l", "m", "n", "o", "p", "q", "r", "s", "t", "u", "v",
    "w", "x", "y", "z", "0", "1", "2", "3", "4", "5", "6", "7", "8", "9", "+", "/" >>
Base64Char(v) == Base64Chars[v + 1]
Base64Value(c) == (CHOOSE i \in 1 .. 64 : Base64Chars[i] = c) - 1
RECURSIVE Base64Encode(_)
Base64Encode(bytes) ==
    IF bytes = <<>> THEN <<>>
    ELSE IF Len(bytes) = 1
    THEN <<Base64Char(bytes[1] \div 4), Base64Char((bytes[1] % 4) * 16), "=", "=">>
    ELSE IF Len(bytes) = 2
    THEN <<Base64Char(bytes[1] \div 4),
           Base64Char((bytes[1] % 4) * 16 + (bytes[2] \div 16)),
           Base64Char((bytes[2] % 16) * 4), "=">>
    ELSE <<Base64Char(bytes[1] \div 4),
           Base64Char((bytes[1] % 4) * 16 + (bytes[2] \div 16)),
           Base64Char((bytes[2] % 16) * 4 + (bytes[3] \div 64)),
           Base64Char(bytes[3] % 64)>> \o Base64Encode(SubSeq(bytes, 4, Len(bytes)))
RECURSIVE Base64Decode(_)
Base64Decode(chars) ==
    LET n == IF \E i \in 1 .. 4 : CharAt(chars, i) \in {"", "="}
             THEN (CHOOSE i \in 1 .. 4 : /\ CharAt(chars, i) \in {"", "="}
                                         /\ \A j \in 1 .. i - 1 : CharAt(chars, j) \notin {"", "="}) - 1
             ELSE 4
        v(i) == Base64Value(chars[i])
    IN IF n < 2 THEN <<>>
       ELSE IF n = 2 THEN <<v(1) * 4 + (v(2) \div 16)>>
       ELSE IF n = 3 THEN <<v(1) * 4 + (v(2) \div 16), (v(2) % 16) * 16 + (v(3) \div 4)>>
       ELSE <<v(1) * 4 + (v(2) \div 16), (v(2) % 16) * 16 + (v(3) \div 4),
              (v(3) % 4) * 64 + v(4)>> \o Base64Decode(SubSeq(chars, 5, Len(chars)))

\* Math.round(opacity * 100) for an opacity in thousandths, and
\* Math.round(strokeWidth * 10) for a stroke width in hundredths
RoundTenth(n) == (n + 5) \div 10

\* the buffer of one path: the body of paths.forEach in compressSVG
CompressPath(p) ==
    LET compressedD == CompressPathData(p.d)
        hasOpacity == p.opacity # 1000
        hasStrokeWidth == p.strokeWidth # 0
    IN EncodeColor(p.fill) \o EncodeColor(p.stroke)
           \o <<(IF hasOpacity THEN 1 ELSE 0) + (IF hasStrokeWidth THEN 2 ELSE 0)>>
           \o (IF hasOpacity THEN EncodeVarInt(RoundTenth(p.opacity)) ELSE <<>>)
           \o (IF hasStrokeWidth THEN EncodeVarInt(RoundTenth(p.strokeWidth)) ELSE <<>>)
           \o EncodeVarInt(Len(compressedD)) \o compressedD

RECURSIVE CompressPaths(_)
CompressPaths(paths) ==
    IF paths = <<>> THEN <<>> ELSE CompressPath(Head(paths)) \o CompressPaths(Tail(paths))

\* compressSVG, from the extracted paths and viewBox to the base64 text
CompressSVG(doc) ==
    Base64Encode(<<3, ToByte(Len(doc.paths))>> \o ProcessViewBox(doc.viewBox)
                     \o CompressPaths(doc.paths))

\* the fields of a path record of decompressSVG, in the order read: fill,
\* stroke, flags, opacityValue, strokeWidthValue, pathDataLength, pathData
ReadColor(buffer, st) == ReadField(st, DecodeColor(buffer, st.offset))

\* flags = buffer[currentOffset++]
ReadFlags(buffer, st) ==
    IF st.thrown THEN st
    ELSE ReadField(st, RecordResult(ReadByte(buffer, st.offset), 1))

\* (flags & bit) > 0 for bit 1 or 2, which is false of undefined
HasFlag(st, bit) ==
    st.fields[3].value # Undefined /\ (st.fields[3].value \div bit) % 2 = 1

\* a plausible slip: the optional value is read whether the flag is set or not
ReadOptionalAlways(buffer, st, bit) ==
    IF st.thrown THEN st ELSE ReadVarInt(buffer, st)

\* a varint that is read when the flag is set
ReadOptional(buffer, st, bit) ==
    IF st.thrown THEN st
    ELSE IF HasFlag(st, bit) THEN ReadVarInt(buffer, st)
    ELSE ReadField(st, RecordResult(0, 0))

\* what decodePathData returns, as a field of pathDataLength bytes
PathDataField(r, pathDataLength) ==
    [thrown |-> r.thrown, value |-> r.pathData, bytesRead |-> pathDataLength]

ReadPathData(buffer, st) ==
    IF st.thrown THEN st
    ELSE ReadField(st, PathDataField(DecodePathData(buffer, st.offset,
                                                    st.fields[6].value),
                                     st.fields[6].value))

\* the outcome of one pass of the path loop of decompressSVG: an exception
\* was caught, or a path element was pushed and currentOffset moved.  An
\* element is the sequence of its attributes, each a pair <<name, value>>.
PathRecordThrown == [thrown |-> TRUE, element |-> <<>>, offset |-> 0]
PathElement(st) ==
    IF st.thrown THEN PathRecordThrown
    ELSE [thrown |-> FALSE,
          element |->
              << <<"d", st.fields[7].value>>, <<"fill", st.fields[1].color>> >>
              \o (IF st.fields[2].color # StrNone
                  THEN << <<"stroke", st.fields[2].color>> >>
                           \o (IF HasFlag(st, 2) /\ st.fields[5].value > 0
                               THEN << <<"stroke-width", st.fields[5].value>> >>
                               ELSE <<>>)
                  ELSE <<>>)
              \o (IF HasFlag(st, 1) /\ st.fields[4].value < 100
                  THEN << <<"opacity", st.fields[4].value>> >> ELSE <<>>),
          offset |-> st.offset]

\* the body of the path loop of decompressSVG
DecodePathRecord(buffer, currentOffset) ==
    PathElement(
        ReadPathData(buffer,
            ReadVarInt(buffer,
                ReadOptional(buffer,
                    ReadOptional(buffer,
                        ReadFlags(buffer,
                            ReadColor(buffer,
                                ReadColor(buffer, ReadStart(currentOffset)))),
                        1),
                    2))))

\* the path loop of decompressSVG from path i on, paths being the elements
\* pushed so far
RECURSIVE DecodePaths(_, _, _, _, _)
RECURSIVE PushPath(_, _, _, _, _)
DecodePaths(buffer, i, pathCount, currentOffset, paths) ==
    IF i < pathCount /\ currentOffset < Len(buffer)
    THEN PushPath(buffer, i, pathCount, paths,
                  DecodePathRecord(buffer, currentOffset))
    ELSE paths

\* the end of a pass: the break of the catch block, or the push
PushPath(buffer, i, pathCount, paths, r) ==
    IF r.thrown THEN paths
    ELSE DecodePaths(buffer, i + 1, pathCount, r.offset, Append(paths, r.element))

\* the SVG text that decompressSVG returns: the fallback of its outer catch,
\* or the document assembled from the viewBox and the paths
FallbackSVG == [fallback |-> TRUE, viewBox |-> <<>>, paths |-> <<>>]
AssembledSVG(viewBox, paths) == [fallback |-> FALSE, viewBox |-> viewBox, paths |-> paths]

\* decompressSVG once decodeViewBox has returned view
DecompressPaths(buffer, view) ==
    IF view.thrown THEN FallbackSVG
    ELSE AssembledSVG(view.viewBox,
                      DecodePaths(buffer, 0, buffer[2], 2 + view.bytesRead, <<>>))

\* decompressSVG once the data is converted from base64
DecompressBuffer(buffer) ==
    IF Len(buffer) < 2 THEN FallbackSVG
    ELSE DecompressPaths(buffer, DecodeViewBox(buffer, 2))

\* decompressSVG
DecompressSVG(compressedData) == DecompressBuffer(Base64Decode(compressedData))

-----------------------------------------------------------------------------
(* The generic document codec as a state machine: a document is            *)
(* compressed, the last byte of the compressed buffer may be removed, and  *)
(* the data is decompressed.                                               *)

\* the greatest number of paths of a document
MaxPaths == 2

ViewBoxSamples ==
    { <<"0", " ", "0", " ", "4", "2", "0", " ", "4", "2", "0">>,
      <<"0", " ", "0", " ", "1", "0", "0", " ", "5", "0">>,
      <<"-", "1", "0", " ", "5", " ", "2", "0", "0", " ", "1", "0", "0">>,
      <<"0", " ", "0", " ", "1", "0", "0">> }

\* paths as extractPaths returns them: opacity in thousandths, strokeWidth in
\* hundredths
PathSamples ==
    { [d |-> <<CmdToken("M"), NumToken(0), NumToken(0), CmdToken("L"),
               NumToken(1000), NumToken(1000), CmdToken("Z")>>,
       fill |-> <<"#", "F", "F", "0", "0", "0", "0">>, stroke |-> StrNone,
       opacity |-> 1000, strokeWidth |-> 0],
      [d |-> <<CmdToken("M"), NumToken(0), NumToken(0)>>,
       fill |-> StrNone, stroke |-> <<"#", "0", "0", "0", "0", "0", "0">>,
       opacity |-> 1000, strokeWidth |-> 150],
      [d |-> <<CmdToken("M"), NumToken(0 - 20), NumToken(1000), CmdToken("L"),
               NumToken(1000), NumToken(0)>>,
       fill |-> <<"#", "1", "2", "3", "4", "5", "6">>,
       stroke |-> <<"#", "f", "f", "f">>,
       opacity |-> 500, strokeWidth |-> 200],
      [d |-> <<>>, fill |-> <<"r", "g", "b", "(", "1", ",", " ", "2", ",", " ", "3", ")">>,
       stroke |-> StrNone, opacity |-> 1000, strokeWidth |-> 0],
      [d |-> <<CmdToken("M"), NumToken(1000), NumToken(1000)>>,
       fill |-> <<"#", "0", "0", "0">>, stroke |-> StrNone,
       opacity |-> 250, strokeWidth |-> 0] }

RECURSIVE PathLists(_)
PathLists(n) ==
    IF n = 0 THEN {<<>>}
    ELSE PathLists(n - 1)
         \cup { Append(l, p) : l \in { k \in PathLists(n - 1) : Len(k) = n - 1 },
                               p \in PathSamples }

StartDoc ==
    /\ gpc = "start"
    /\ gdoc \in [viewBox : ViewBoxSamples, paths : PathLists(MaxPaths)]
    /\ gdata = <<>>
    /\ gres = <<>>

CallCompressSVG ==
    /\ gpc = "start"
    /\ gdata' = CompressSVG(gdoc)
    /\ gpc' = "compressed"
    /\ UNCHANGED <<gdoc, gres, othersDoc>>

\* the last byte of the compressed buffer is removed
TruncateLastByte ==
    /\ gpc = "compressed"
    /\ LET buffer == Base64Decode(gdata) IN
       gdata' = Base64Encode(SubSeq(buffer, 1, Len(buffer) - 1))
    /\ gpc' = "truncated"
    /\ UNCHANGED <<gdoc, gres, othersDoc>>

CallDecompressSVG ==
    /\ gpc \in {"compressed", "truncated"}
    /\ gres' = DecompressSVG(gdata)
    /\ gpc' = IF gpc = "truncated" THEN "decodedTruncated" ELSE "decoded"
    /\ UNCHANGED <<gdoc, gdata, othersDoc>>

NextDoc == CallCompressSVG \/ TruncateLastByte \/ CallDecompressSVG
InitDoc == StartDoc /\ OthersIdleDoc
SpecDoc == InitDoc /\ [][NextDoc]_vars

\* C6: when the last byte is removed from the buffer that compressSVG made of
\* a document with at least one path, decompressSVG returns the hard-coded
\* fallback SVG, never an SVG assembled from the records decoded so far.
C6_TruncationGivesFallback ==
    (gpc = "decodedTruncated" /\ Len(gdoc.paths) >= 1) => gres = FallbackSVG

\* the document of the one path M 0 0 L 10 10 Z, truncated, comes back as an
\* SVG with the decoded viewBox and no path
C6_Divergence ==
    /\ gpc = "decodedTruncated"
    /\ gdoc.viewBox = <<"0", " ", "0", " ", "4", "2", "0", " ", "4", "2", "0">>
    /\ Len(gdoc.paths) = 1
    /\ gdoc.paths[1].fill = <<"#", "F", "F", "0", "0", "0", "0">>
    /\ Base64Decode(gdata) = <<3, 1, 1, 164, 3, 4, 0, 0, 9, 2, 0, 0, 6, 172, 2, 172, 2>>
    /\ gres = AssembledSVG(gdoc.viewBox, <<>>)

\* two paths: the truncated data comes back with the first path only
C6_PartialPaths ==
    /\ gpc = "decodedTruncated"
    /\ Len(gdoc.paths) = 2
    /\ ~gres.fallback
    /\ Len(gres.paths) = 1

-----------------------------------------------------------------------------
(* The record decoders of the Phil decompressor (workingPhilCompress.js)   *)
(* and of decompressSpikes.js.  A decoder's outcome is a record: it threw, *)
(* or it returned a value and bytesRead.  An element is the sequence of    *)
(* its attributes, each a pair <<name, value>>; a number attribute is held *)
(* in the unit of its last printed digit.                                  *)
\* decompressMetadata of the Phil decompressor and decompressViewBox of
\* decompressSpikes.js, which are the same code
DecompressMetadata(buffer, offset) ==
    LET viewBoxLength == DecodeVarInt(buffer, offset + 1) IN
    IF viewBoxLength.thrown THEN RecordThrown
    ELSE RecordResult(ReadChars(buffer, offset + 1 + viewBoxLength.bytesRead,
                                viewBoxLength.value),
                      1 + viewBoxLength.bytesRead + viewBoxLength.value)

\* param.toFixed(1) for the param n / 10 of the Phil decompressor, whose
\* QUANTIZATION_SCALE is 10
ToFixed1(n) ==
    LET a == IF n < 0 THEN 0 - n ELSE n IN
    (IF n < 0 THEN <<"-">> ELSE <<>>)
        \o DecString(a \div 10) \o <<".">> \o DecString(a % 10)

\* a plausible slip: the coordinate is read without the zigzag inverse
DecodeFloatPhilUnsigned(buffer, offset) ==
    IF offset >= Len(buffer) THEN RecordThrown
    ELSE LET r == DecodeVarInt(buffer, offset) IN
         IF r.thrown THEN RecordThrown ELSE RecordResult(r.value, r.bytesRead)

\* decodeFloat(buffer, offset) of the Phil decompressor, for a coordinate:
\* the value in tenths
DecodeFloatPhil(buffer, offset) ==
    IF offset >= Len(buffer) THEN RecordThrown
    ELSE LET r == DecodeSignedVarInt(buffer, offset) IN
         IF r.thrown THEN RecordThrown ELSE RecordResult(r.value, r.bytesRead)

\* decodeFloat(buffer, offset, true) of the Phil decompressor, for an
\* opacity: the value in hundredths
DecodeOpacityPhil(buffer, offset) ==
    IF offset >= Len(buffer) THEN RecordThrown
    ELSE LET r == DecodeVarInt(buffer, offset) IN
         IF r.thrown THEN RecordThrown ELSE RecordResult(r.value, r.bytesRead)

\* the parameter loop of decodePath from parameter j on, pathData being the
\* text so far: the text and the offset reached (in bytesRead)
RECURSIVE DecodeParamsPhil(_, _, _, _, _, _)
RECURSIVE AddParamPhil(_, _, _, _, _, _, _)
DecodeParamsPhil(buffer, currentOffset, j, paramCount, cmdChar, pathData) ==
    IF j < paramCount /\ currentOffset < Len(buffer)
    THEN AddParamPhil(buffer, currentOffset, j, paramCount, cmdChar, pathData,
                      DecodeFloatPhil(buffer, currentOffset))
    ELSE RecordResult(pathData, currentOffset)

\* the body of the parameter loop once decodeFloat has returned param
AddParamPhil(buffer, currentOffset, j, paramCount, cmdChar, pathData, param) ==
    IF param.thrown THEN RecordThrown
    ELSE DecodeParamsPhil(buffer, currentOffset + param.bytesRead, j + 1,
                          paramCount, cmdChar,
                          pathData
                              \o (IF j > 0 \/ cmdChar \notin {"m", "M"}
                                  THEN <<" ">> ELSE <<>>)
                              \o ToFixed1(param.value))

\* the command loop of decodePath from command i on, pathData being the text
\* so far
RECURSIVE DecodeCommandsPhil(_, _, _, _, _)
RECURSIVE CommandParamsPhil(_, _, _, _, _, _)
RECURSIVE NextCommandPhil(_, _, _, _)
DecodeCommandsPhil(buffer, currentOffset, i, cmdCount, pathData) ==
    IF i < cmdCount /\ currentOffset < Len(buffer)
    THEN CommandParamsPhil(buffer, currentOffset, i, cmdCount, pathData,
                           DecodeVarInt(buffer, currentOffset + 1))
    ELSE RecordResult(pathData, currentOffset)

\* the body of the command loop once decodeVarInt has returned paramCount
CommandParamsPhil(buffer, currentOffset, i, cmdCount, pathData, paramCount) ==
    IF paramCount.thrown THEN RecordThrown
    ELSE NextCommandPhil(buffer, i, cmdCount,
             DecodeParamsPhil(buffer, currentOffset + 1 + paramCount.bytesRead,
                              0, paramCount.value,
                              FromCharCode(buffer[currentOffset + 1]),
                              pathData \o <<FromCharCode(buffer[currentOffset + 1])>>))

\* the end of the body of the command loop, params being what the parameter
\* loop has left
NextCommandPhil(buffer, i, cmdCount, params) ==
    IF params.thrown THEN RecordThrown
    ELSE DecodeCommandsPhil(buffer, params.bytesRead, i + 1, cmdCount, params.value)

\* decodePath once the command loop has left cmds
PathBytesReadPhil(offset, cmds) ==
    IF cmds.thrown THEN RecordThrown
    ELSE RecordResult(cmds.value, cmds.bytesRead - offset)

\* decodePath once decodeVarInt has returned cmdCount
PathCommandsPhil(buffer, offset, cmdCount) ==
    IF cmdCount.thrown THEN RecordThrown
    ELSE PathBytesReadPhil(offset,
             DecodeCommandsPhil(buffer, offset + cmdCount.bytesRead, 0,
                                cmdCount.value, <<>>))

\* decodePath of the Phil decompressor
DecodePathPhil(buffer, offset) ==
    PathCommandsPhil(buffer, offset, DecodeVarInt(buffer, offset))

ReadColorPhil(buffer, st) == ReadField(st, DecodeColorPhil(buffer, st.offset))
ReadFloatPhil(buffer, st) == ReadField(st, DecodeFloatPhil(buffer, st.offset))
ReadOpacityPhil(buffer, st) == ReadField(st, DecodeOpacityPhil(buffer, st.offset))
ReadPathPhil(buffer, st) == ReadField(st, DecodePathPhil(buffer, st.offset))

\* the element that decompressPath of the Phil decompressor builds from the
\* fields fill, stroke, strokeWidth, opacity and path, and its bytesRead
PathElementPhil(offset, st) ==
    IF st.thrown THEN RecordThrown
    ELSE RecordResult(
             << <<"d", st.fields[5].value>>, <<"fill", st.fields[1].color>> >>
             \o (IF st.fields[4].value < 99
                 THEN << <<"opacity", st.fields[4].value>> >> ELSE <<>>)
             \o (IF st.fields[2].color # StrNone /\ st.fields[3].value > 0
                 THEN << <<"stroke", st.fields[2].color>>,
                         <<"stroke-width", st.fields[3].value>> >>
                 ELSE <<>>),
             st.offset - offset)

\* decompressPath of the Phil decompressor
DecompressPathPhil(buffer, offset) ==
    PathElementPhil(offset,
        ReadPathPhil(buffer,
            ReadOpacityPhil(buffer,
                ReadFloatPhil(buffer,
                    ReadColorPhil(buffer,
                        ReadColorPhil(buffer, ReadStart(offset + 1)))))))

\* the element and bytesRead that decompressPath of decompressSpikes.js returns
\* from its catch block
PlaceholderPathSpikes ==
    RecordResult(<< <<"d", <<"M", " ", "0", " ", "0">>>>, <<"fill", StrNone>>,
                    <<"stroke", <<"#", "F", "F", "0", "0", "0", "0">>>>,
                    <<"stroke-width", 10>> >>, 1)

ReadColorSpikes(buffer, st) == ReadField(st, DecodeColorSpikes(buffer, st.offset))

\* the element that decompressPath of decompressSpikes.js builds from the
\* fields fill, stroke, strokeWidthRaw and pathDataLength, and its bytesRead
PathElementSpikes(buffer, offset, st) ==
    IF st.thrown THEN PlaceholderPathSpikes
    ELSE RecordResult(
             << <<"d", ReadChars(buffer, st.offset, st.fields[4].value)>>,
                <<"fill", st.fields[1].color>> >>
             \o (IF st.fields[2].color # StrNone /\ st.fields[3].value > 0
                 THEN << <<"stroke", st.fields[2].color>>,
                         <<"stroke-width", st.fields[3].value>> >>
                 ELSE <<>>),
             st.offset + st.fields[4].value - offset)

\* decompressPath of decompressSpikes.js
DecompressPathSpikes(buffer, offset) ==
    PathElementSpikes(buffer, offset,
        ReadVarInt(buffer,
            ReadVarInt(buffer,
                ReadColorSpikes(buffer,
                    ReadColorSpikes(buffer, ReadStart(offset + 1))))))

\* the element and bytesRead that decompressGradient returns from its catch
\* block
PlaceholderGradientSpikes ==
    RecordResult(<< <<"id", <<"f", "a", "l", "l", "b", "a", "c", "k">>>> >>, 1)

\* the stop loop of decompressGradient from stop i on, stops being the stops
\* pushed so far: the stops and the offset reached (in bytesRead)
RECURSIVE DecodeStopsSpikes(_, _, _, _, _)
RECURSIVE AddStopSpikes(_, _, _, _, _)
DecodeStopsSpikes(buffer, currentOffset, i, stopCount, stops) ==
    IF i < stopCount /\ currentOffset < Len(buffer)
    THEN AddStopSpikes(buffer, i, stopCount, stops,
                       ReadColorSpikes(buffer,
                           ReadVarInt(buffer, ReadStart(currentOffset))))
    ELSE RecordResult(stops, currentOffset)

\* the body of the stop loop once stopOffset and stopColor are read
AddStopSpikes(buffer, i, stopCount, stops, st) ==
    IF st.thrown THEN RecordThrown
    ELSE DecodeStopsSpikes(buffer, st.offset, i + 1, stopCount,
                           Append(stops, <<st.fields[1].value, st.fields[2].color>>))

\* the id of a gradient, whose length is the field read last
ReadIdSpikes(buffer, st) ==
    IF st.thrown THEN st
    ELSE ReadField(st, RecordResult(ReadChars(buffer, st.offset, st.fields[1].value),
                                    st.fields[1].value))

\* the stops that the stop loop has left, as a field
StopsField(st, stops) ==
    ReadField(st, [stops EXCEPT !.bytesRead = @ - st.offset])

\* the stops of a gradient, whose count is the field read last
ReadStopsSpikes(buffer, st) ==
    IF st.thrown THEN st
    ELSE StopsField(st, DecodeStopsSpikes(buffer, st.offset, 0,
                                          st.fields[7].value, <<>>))

\* the element that decompressGradient builds from the fields idLength, id,
\* x1, y1, x2, y2, stopCount and stops, and its bytesRead
GradientElementSpikes(offset, st) ==
    IF st.thrown THEN PlaceholderGradientSpikes
    ELSE RecordResult(
             << <<"id", st.fields[2].value>>,
                <<"x1", st.fields[3].value>>, <<"y1", st.fields[4].value>>,
                <<"x2", st.fields[5].value>>, <<"y2", st.fields[6].value>>,
                <<"stops", st.fields[8].value>> >>,
             st.offset - offset)

\* decompressGradient of decompressSpikes.js
DecompressGradientSpikes(buffer, offset) ==
    GradientElementSpikes(offset,
        ReadStopsSpikes(buffer,
            ReadVarInt(buffer,
                ReadVarInt(buffer,
                    ReadVarInt(buffer,
                        ReadVarInt(buffer,
                            ReadVarInt(buffer,
                                ReadIdSpikes(buffer,
                                    ReadVarInt(buffer, ReadStart(offset + 1))))))))))

-----------------------------------------------------------------------------
(* decompressSVG of the Phil decompressor and of decompressSpikes.js as a  *)
(* state machine: one action per pass of the tag-dispatch loop, by the     *)
(* case of the switch that the pass takes.                                 *)

\* the most chunks a buffer is made of and the most passes of a loop followed
MaxChunks == 3
MaxIterations == 4

\* records and fragments that the buffers are made of: a viewBox record, two
\* viewBox records whose length field is the 5-byte varint of -6 and of -8, a
\* path record, a byte that is no tag, and a path record cut short
ChunksPhil ==
    { <<0, 2, 48, 49>>,
      <<0, 250, 255, 255, 255, 15>>,
      <<0, 248, 255, 255, 255, 15>>,
      <<1, 1, 0, 0, 100, 1, 77, 2, 0, 30>>,
      <<9>>,
      <<1, 1>> }

\* the same for decompressSpikes.js, with a gradient record in place of the
\* second viewBox record of negative length
ChunksSpikes ==
    { <<0, 2, 48, 49>>,
      <<0, 250, 255, 255, 255, 15>>,
      <<2, 1, 103, 0, 0, 100, 100, 1, 0, 3>>,
      <<1, 1, 0, 0, 3, 77, 32, 48>>,
      <<9>>,
      <<1, 254>> }

RECURSIVE ChunkLists(_, _)
ChunkLists(chunks, n) ==
    IF n = 0 THEN {<<>>}
    ELSE ChunkLists(chunks, n - 1)
         \cup { l \o c : l \in ChunkLists(chunks, n - 1), c \in chunks }

\* a header (version, count) and chunks; and a buffer too short for a header
LoopBuffers(decoder) ==
    { <<1, 1>> \o l :
          l \in ChunkLists(IF decoder = "Phil" THEN ChunksPhil ELSE ChunksSpikes,
                           MaxChunks) }
    \cup {<<1>>}

StrDefaultViewBox == <<"0", " ", "0", " ", "4", "2", "0", " ", "4", "2", "0">>

StartLoop ==
    /\ lpc = "start"
    /\ ldecoder \in {"Phil", "Spikes"}
    /\ lbuf \in LoopBuffers(ldecoder)
    /\ loffset = 0
    /\ lviewBox = <<>>
    /\ lelements = <<>>
    /\ lres = <<>>
    /\ lhist = [iterations |-> 0, records |-> 0, prev |-> 0 - 1, unknown |-> 0 - 1]

\* the history after a pass that started at loffset: decoded tells whether the
\* pass decoded a record, unknownTag whether it read a byte that is no tag
Pass(decoded, unknownTag) ==
    [iterations |-> lhist.iterations + 1,
     records |-> lhist.records + (IF decoded THEN 1 ELSE 0),
     prev |-> loffset,
     unknown |-> IF unknownTag /\ lhist.unknown < 0 THEN lhist.records
                 ELSE lhist.unknown]

InLoop(decoder) ==
    /\ lpc = "loop"
    /\ ldecoder = decoder
    /\ loffset < Len(lbuf)
    /\ lhist.iterations < MaxIterations

\* decompressSVG up to the loop: the length check, the header, the defaults
EnterDecompressSVG ==
    /\ lpc = "start"
    /\ IF Len(lbuf) < 2
       THEN lpc' = "done" /\ lres' = FallbackSVG /\ UNCHANGED <<loffset, lviewBox>>
       ELSE /\ lpc' = "loop"
            /\ loffset' = 2
            /\ lviewBox' = StrDefaultViewBox
            /\ UNCHANGED lres
    /\ UNCHANGED <<ldecoder, lbuf, lelements, lhist, othersLoop>>

\* case 0x00 of the Phil loop; an exception leaves the loop
PhilMetadata ==
    /\ InLoop("Phil")
    /\ lbuf[loffset + 1] = 0
    /\ LET metaResult == DecompressMetadata(lbuf, loffset) IN
       IF metaResult.thrown
       THEN lpc' = "exit" /\ UNCHANGED <<loffset, lviewBox, lhist>>
       ELSE /\ lviewBox' = metaResult.value
            /\ loffset' = loffset + metaResult.bytesRead
            /\ lhist' = Pass(TRUE, FALSE)
            /\ UNCHANGED lpc
    /\ UNCHANGED <<ldecoder, lbuf, lelements, lres, othersLoop>>

\* case 0x01 of the Phil loop
PhilPath ==
    /\ InLoop("Phil")
    /\ lbuf[loffset + 1] = 1
    /\ LET pathResult == DecompressPathPhil(lbuf, loffset) IN
       IF pathResult.thrown
       THEN lpc' = "exit" /\ UNCHANGED <<loffset, lelements, lhist>>
       ELSE /\ lelements' = Append(lelements, [kind |-> "path", attrs |-> pathResult.value])
            /\ loffset' = loffset + pathResult.bytesRead
            /\ lhist' = Pass(TRUE, FALSE)
            /\ UNCHANGED lpc
    /\ UNCHANGED <<ldecoder, lbuf, lviewBox, lres, othersLoop>>

\* the default case of the Phil loop
PhilUnknown ==
    /\ InLoop("Phil")
    /\ lbuf[loffset + 1] \notin {0, 1}
    /\ loffset' = Len(lbuf)
    /\ lhist' = Pass(FALSE, TRUE)
    /\ UNCHANGED <<lpc, ldecoder, lbuf, lviewBox, lelements, lres, othersLoop>>

\* case 0x00 of the spikes loop; an exception reaches the outer catch
SpikesViewBox ==
    /\ InLoop("Spikes")
    /\ lbuf[loffset + 1] = 0
    /\ LET viewBoxResult == DecompressMetadata(lbuf, loffset) IN
       IF viewBoxResult.thrown
       THEN lpc' = "done" /\ lres' = FallbackSVG /\ UNCHANGED <<loffset, lviewBox, lhist>>
       ELSE /\ lviewBox' = viewBoxResult.value
            /\ loffset' = loffset + viewBoxResult.bytesRead
            /\ lhist' = Pass(TRUE, FALSE)
            /\ UNCHANGED <<lpc, lres>>
    /\ UNCHANGED <<ldecoder, lbuf, lelements, othersLoop>>

\* case 0x01 of the spikes loop
SpikesPath ==
    /\ InLoop("Spikes")
    /\ lbuf[loffset + 1] = 1
    /\ LET pathResult == DecompressPathSpikes(lbuf, loffset) IN
       /\ lelements' = Append(lelements, [kind |-> "path", attrs |-> pathResult.value])
       /\ loffset' = loffset + pathResult.bytesRead
    /\ lhist' = Pass(TRUE, FALSE)
    /\ UNCHANGED <<lpc, ldecoder, lbuf, lviewBox, lres, othersLoop>>

\* case 0x02 of the spikes loop
SpikesGradient ==
    /\ InLoop("Spikes")
    /\ lbuf[loffset + 1] = 2
    /\ LET gradientResult == DecompressGradientSpikes(lbuf, loffset) IN
       /\ lelements' = Append(lelements,
                              [kind |-> "gradient", attrs |-> gradientResult.value])
       /\ loffset' = loffset + gradientResult.bytesRead
    /\ lhist' = Pass(TRUE, FALSE)
    /\ UNCHANGED <<lpc, ldecoder, lbuf, lviewBox, lres, othersLoop>>

\* the default case of the spikes loop
SpikesUnknown ==
    /\ InLoop("Spikes")
    /\ lbuf[loffset + 1] \notin {0, 1, 2}
    /\ loffset' = loffset + 1
    /\ lhist' = Pass(FALSE, TRUE)
    /\ UNCHANGED <<lpc, ldecoder, lbuf, lviewBox, lelements, lres, othersLoop>>

\* after the loop, or after the catch around the Phil loop: the fallback if no
\* path was decoded, else the SVG of the viewBox and the elements
FinishDecompressSVG ==
    /\ lpc = "exit" \/ (lpc = "loop" /\ loffset >= Len(lbuf))
    /\ lpc' = "done"
    /\ lres' = IF \E i \in 1 .. Len(lelements) : lelements[i].kind = "path"
               THEN AssembledSVG(lviewBox, lelements)
               ELSE FallbackSVG
    /\ UNCHANGED <<ldecoder, lbuf, loffset, lviewBox, lelements, lhist, othersLoop>>

NextLoop ==
    \/ EnterDecompressSVG
    \/ PhilMetadata \/ PhilPath \/ PhilUnknown
    \/ SpikesViewBox \/ SpikesPath \/ SpikesGradient \/ SpikesUnknown
    \/ FinishDecompressSVG
InitLoop == StartLoop /\ OthersIdleLoop
SpecLoop == InitLoop /\ [][NextLoop]_vars

\* C7: every pass of a tag-dispatch loop leaves offset strictly greater than
\* it was before the pass, for every buffer, also when the length field of a
\* record decodes to a negative number.
C7_OffsetIncreases ==
    (lpc = "loop" /\ lhist.iterations > 0) => loffset > lhist.prev

\* the Phil loop after a pass over the viewBox record 00 FA FF FF FF 0F, whose
\* length is -6: bytesRead is 0 and offset is still 2
C7_Divergence ==
    /\ lpc = "loop"
    /\ ldecoder = "Phil"
    /\ SubSeq(lbuf, 3, Len(lbuf)) = <<0, 250, 255, 255, 255, 15>>
    /\ lhist.iterations = MaxIterations
    /\ lhist.prev = 2
    /\ loffset = 2

\* C8: once a decode loop has read a tag byte that is not a record tag of its
\* decoder, it decodes no further record and adds no further element.
C8_UnknownTagHalts ==
    lhist.unknown >= 0 => lhist.records = lhist.unknown

\* the spikes loop on 09 followed by a path record: the path is decoded and
\* pushed after the unknown tag was read
C8_Divergence ==
    /\ lpc = "done"
    /\ ldecoder = "Spikes"
    /\ SubSeq(lbuf, 3, Len(lbuf)) = <<9, 1, 1, 0, 0, 3, 77, 32, 48>>
    /\ lhist.unknown = 0
    /\ Len(lelements) = 1
    /\ lres = AssembledSVG(StrDefaultViewBox,
                           <<[kind |-> "path",
                              attrs |-> << <<"d", <<"M", " ", "0">>>>,
                                           <<"fill", <<"#", "0", "0", "0", "0", "0", "0">>>> >>]>>)

\* C15: decompressSVG is total: whatever the data, it returns an SVG.  The
\* loop is deterministic in offset, viewBox and the elements pushed, so to
\* return it must change them in every pass: a pass that leaves them as they
\* were is followed by the same pass for ever.
C15_EveryPassMoves ==
    [][(lpc = "loop" /\ lpc' = "loop")
           => <<loffset', lviewBox', lelements'>> # <<loffset, lviewBox, lelements>>]_vars

\* decompressSVG of decompressSpikes.js on a viewBox record whose length
\* field decodes to -6: two passes on, offset, viewBox and elements are what
\* they were a pass before
C15_Divergence ==
    /\ lpc = "loop"
    /\ ldecoder = "Spikes"
    /\ lbuf = <<1, 1, 0, 250, 255, 255, 255, 15>>
    /\ lhist.iterations = 2
    /\ lhist.prev = 2
    /\ loffset = 2
    /\ lviewBox = <<>>
    /\ lelements = <<>>
    /\ DecompressMetadata(lbuf, loffset) = RecordResult(<<>>, 0)

-----------------------------------------------------------------------------
(* The header that each compressSVG writes.  A compressor matches the      *)
(* elements of the document, hands each to its element compressor and      *)
(* concatenates the header, the metadata record and the records returned.  *)
(* What an element compressor returns for an element is an input here: a   *)
(* record, or null.                                                        *)

\* the greatest number of elements matched in a document
MaxElements == 3

\* null, returned by an element compressor that gives up
NullBuffer == <<Undefined>>
IsBuffer(b) == b # NullBuffer

\* Buffer.concat(parts)
RECURSIVE ConcatBuffers(_)
ConcatBuffers(parts) ==
    IF parts = <<>> THEN <<>> ELSE Head(parts) \o ConcatBuffers(Tail(parts))

\* the metadata record of the Phil, top, spikes and Bg compressors: the
\* marker 0x00, the length of the viewBox and the viewBox
MetadataBuffer(viewBox) ==
    <<0>> \o EncodeVarInt(Len(Utf8(viewBox))) \o Utf8(viewBox)

\* the parts of a document: the metadata buffer and the records pushed
PartsOf(input) ==
    <<MetadataBuffer(input.viewBox)>> \o SelectSeq(input.elements, IsBuffer)

\* Buffer.concat([header, combinedBuffer]).toString('base64')
FullBuffer(version, count, parts) ==
    Base64Encode(<<version, ToByte(count)>> \o ConcatBuffers(parts))

\* compressSVG of workingPhilCompress.js, noGlitchTopCompress.js and
\* compressSpikes.js: the count is parts.length - 1
CompressSVGPhil(input) == FullBuffer(1, Len(PartsOf(input)) - 1, PartsOf(input))
CompressSVGTop(input) == FullBuffer(3, Len(PartsOf(input)) - 1, PartsOf(input))
CompressSVGSpikes(input) == FullBuffer(3, Len(PartsOf(input)) - 1, PartsOf(input))

\* compressSVG of compressBg.js: the count is parts.length
CompressSVGBg(input) == FullBuffer(3, Len(PartsOf(input)), PartsOf(input))

\* the records that the element compressors return
ElementSamples ==
    { <<1, 1, 0, 0, 100, 1, 77, 2, 0, 30>>,
      <<2, 1, 103, 0, 0, 100, 100, 1, 0, 3>>,
      NullBuffer }

RECURSIVE ElementLists(_)
ElementLists(n) ==
    IF n = 0 THEN {<<>>}
    ELSE ElementLists(n - 1)
         \cup { Append(l, e) : l \in { k \in ElementLists(n - 1) : Len(k) = n - 1 },
                               e \in ElementSamples }

HeaderVariants == {"Generic", "Phil", "Top", "Spikes", "Bg"}

StartHeader ==
    /\ hpc = "start"
    /\ hvariant \in HeaderVariants
    /\ hinput \in [viewBox : ViewBoxSamples,
                   elements : IF hvariant = "Generic" THEN PathLists(MaxPaths)
                              ELSE ElementLists(MaxElements)]
    /\ hdata = <<>>

HeaderDone ==
    /\ hpc' = "done"
    /\ UNCHANGED <<hvariant, hinput, othersHeader>>

HeaderCompressSVG ==
    /\ hpc = "start" /\ hvariant = "Generic"
    /\ hdata' = CompressSVG([viewBox |-> hinput.viewBox, paths |-> hinput.elements])
    /\ HeaderDone

HeaderCompressSVGPhil ==
    /\ hpc = "start" /\ hvariant = "Phil"
    /\ hdata' = CompressSVGPhil(hinput)
    /\ HeaderDone

HeaderCompressSVGTop ==
    /\ hpc = "start" /\ hvariant = "Top"
    /\ hdata' = CompressSVGTop(hinput)
    /\ HeaderDone

HeaderCompressSVGSpikes ==
    /\ hpc = "start" /\ hvariant = "Spikes"
    /\ hdata' = CompressSVGSpikes(hinput)
    /\ HeaderDone

HeaderCompressSVGBg ==
    /\ hpc = "start" /\ hvariant = "Bg"
    /\ hdata' = CompressSVGBg(hinput)
    /\ HeaderDone

NextHeader ==
    \/ HeaderCompressSVG
    \/ HeaderCompressSVGPhil
    \/ HeaderCompressSVGTop
    \/ HeaderCompressSVGSpikes
    \/ HeaderCompressSVGBg
InitHeader == StartHeader /\ OthersIdleHeader
SpecHeader == InitHeader /\ [][NextHeader]_vars

\* the format version of each compressor
VersionOf(v) == IF v = "Phil" THEN 1 ELSE 3

\* the primitive records of the document that compressSVG was given
PrimitiveRecords(v, input) ==
    IF v = "Generic" THEN input.elements ELSE SelectSeq(input.elements, IsBuffer)

\* C14: the document of every compressor starts with the format version and
\* the number of primitive records that follow the metadata record; the
\* metadata record is not counted.
C14_HeaderCountsPrimitives ==
    hpc = "done" =>
        /\ Base64Decode(hdata)[1] = VersionOf(hvariant)
        /\ Base64Decode(hdata)[2] = Len(PrimitiveRecords(hvariant, hinput))
        /\ hvariant # "Generic" =>
               SubSeq(Base64Decode(hdata), 3, Len(Base64Decode(hdata)))
                   = MetadataBuffer(hinput.viewBox)
                         \o ConcatBuffers(PrimitiveRecords(hvariant, hinput))

\* compressBg.js counts the metadata record: one record, count 2
C14_Divergence ==
    /\ hpc = "done"
    /\ hvariant = "Bg"
    /\ hinput.elements = << <<1, 1, 0, 0, 100, 1, 77, 2, 0, 30>> >>
    /\ Base64Decode(hdata)[2] = 2

\* the other compressors count the primitive records only
C14_AllButBg ==
    (hpc = "done" /\ hvariant # "Bg") =>
        Base64Decode(hdata)[2] = Len(PrimitiveRecords(hvariant, hinput))

-----------------------------------------------------------------------------
(* The batch drivers processSVGs (compress.js) and processCompressedFiles  *)
(* (decompress.js): one action per callback of readdirSync(...).forEach,   *)
(* and one for the write of the summary.  Which step fails for a file is   *)
(* an input: reading it, the codec (compressSVG, decompressSVG), writing   *)
(* the result, or none.                                                    *)

\* the greatest number of files in the directory
MaxFiles == 3

\* a file: whether its name has the suffix the driver looks for ('.svg',
\* '.bin'), and the step that throws for it
FileSamples ==
    { [match |-> FALSE, fails |-> "none"] }
    \cup [match : {TRUE}, fails : {"none", "read", "codec", "write"}]

RECURSIVE FileLists(_)
FileLists(n) ==
    IF n = 0 THEN {<<>>}
    ELSE FileLists(n - 1)
         \cup { Append(l, f) : l \in { k \in FileLists(n - 1) : Len(k) = n - 1 },
                               f \in FileSamples }

StartBatch ==
    /\ bpc = "files"
    /\ bdriver \in {"processSVGs", "processCompressedFiles"}
    /\ bfiles \in FileLists(MaxFiles)
    /\ bindex = 0
    /\ bresults = {}
    /\ bsummary = FALSE

\* the callback returns and forEach goes on with the next file
NextFile(results) ==
    /\ bindex' = bindex + 1
    /\ bresults' = results
    /\ UNCHANGED bpc

\* an exception leaves the callback, forEach and the driver
DriverThrows ==
    /\ bpc' = "thrown"
    /\ UNCHANGED <<bindex, bresults>>

\* the forEach callback of processSVGs: readFileSync comes before the try
ProcessSVGsFile ==
    /\ bpc = "files" /\ bdriver = "processSVGs"
    /\ bindex < Len(bfiles)
    /\ IF ~bfiles[bindex + 1].match THEN NextFile(bresults)
       ELSE IF bfiles[bindex + 1].fails = "read" THEN DriverThrows
       ELSE IF bfiles[bindex + 1].fails = "none"
       THEN NextFile(bresults \cup {[file |-> bindex + 1, ok |-> TRUE]})
       ELSE NextFile(bresults)
    /\ UNCHANGED <<bdriver, bfiles, bsummary, othersBatch>>

\* the forEach callback of processCompressedFiles: every step is in the try,
\* and the catch block records the error
ProcessCompressedFile ==
    /\ bpc = "files" /\ bdriver = "processCompressedFiles"
    /\ bindex < Len(bfiles)
    /\ IF ~bfiles[bindex + 1].match THEN NextFile(bresults)
       ELSE NextFile(bresults \cup {[file |-> bindex + 1,
                                     ok |-> bfiles[bindex + 1].fails = "none"]})
    /\ UNCHANGED <<bdriver, bfiles, bsummary, othersBatch>>

\* fs.writeFileSync of the summary, after forEach
WriteSummary ==
    /\ bpc = "files"
    /\ bindex = Len(bfiles)
    /\ bsummary' = TRUE
    /\ bpc' = "done"
    /\ UNCHANGED <<bdriver, bfiles, bindex, bresults, othersBatch>>

NextBatch == ProcessSVGsFile \/ ProcessCompressedFile \/ WriteSummary
InitBatch == StartBatch /\ OthersIdleBatch
SpecBatch == InitBatch /\ [][NextBatch]_vars

\* C16: in both drivers a failure at any step of one file does not stop the
\* batch: the driver ends only when forEach has passed every file of the
\* listing and the summary is written.
C16_BatchContinues ==
    bpc \in {"done", "thrown"} => bindex = Len(bfiles) /\ bsummary

\* processSVGs cannot read the first of two files: the exception leaves the
\* driver, the second file is not compressed and no summary is written
C16_Divergence ==
    /\ bpc = "thrown"
    /\ bdriver = "processSVGs"
    /\ bfiles = <<[match |-> TRUE, fails |-> "read"], [match |-> TRUE, fails |-> "none"]>>
    /\ bindex = 0
    /\ bresults = {}
    /\ ~bsummary

\* processCompressedFiles, and processSVGs when every file can be read, go
\* through the whole listing
C16_WhenReadable ==
    (bdriver = "processCompressedFiles"
         \/ \A i \in 1 .. Len(bfiles) : bfiles[i].fails # "read")
        => bpc # "thrown"

-----------------------------------------------------------------------------
(* encodeSVG and decodeSVG of svg_converter.js: a 6-byte header (version,  *)
(* format type, length) and the UTF-8 bytes of the SVG, in base64.         *)

\* the character that toString('utf8') writes for bytes that are no UTF-8
ReplacementChar == "<FFFD>"

\* buffer.toString('utf8') for the bytes from 1-based position i on.  The
\* characters of the model are below 256, so the only lead bytes that start
\* a character are 0xC2 and 0xC3; any other byte from 0x80 on, and a lead
\* byte without its continuation byte, is replaced.
RECURSIVE Utf8Decode(_, _)
Utf8Decode(bytes, i) ==
    IF i > Len(bytes) THEN <<>>
    ELSE IF bytes[i] < 128
    THEN <<FromCharCode(bytes[i])>> \o Utf8Decode(bytes, i + 1)
    ELSE IF /\ bytes[i] \in {194, 195}
            /\ i < Len(bytes)
            /\ bytes[i + 1] >= 128 /\ bytes[i + 1] < 192
    THEN <<FromCharCode((bytes[i] - 192) * 64 + (bytes[i + 1] - 128))>>
             \o Utf8Decode(bytes, i + 2)
    ELSE <<ReplacementChar>> \o Utf8Decode(bytes, i + 1)

\* header.writeUInt32BE(svgLength, 2): the four bytes written
WriteUInt32BE(n) ==
    <<n \div 16777216, (n \div 65536) % 256, (n \div 256) % 256, n % 256>>

\* the same bytes read least significant first
ReadUInt32LE(buffer, offset) ==
    ((buffer[offset + 4] * 256 + buffer[offset + 3]) * 256 + buffer[offset + 2]) * 256
        + buffer[offset + 1]

\* buffer.readUInt32BE(offset), for a length below 2^31
ReadUInt32BE(buffer, offset) ==
    ((buffer[offset + 1] * 256 + buffer[offset + 2]) * 256 + buffer[offset + 3]) * 256
        + buffer[offset + 4]

\* encodeSVG
EncodeSVG(svgContent) ==
    Base64Encode(<<1, 1>> \o WriteUInt32BE(Len(Utf8(svgContent))) \o Utf8(svgContent))

\* what decodeSVG does: it throws, or it returns a string
ConverterThrown == [thrown |-> TRUE, value |-> <<>>]
ConverterResult(s) == [thrown |-> FALSE, value |-> s]

\* decodeSVG once the data is converted from base64
DecodeBuffer(buffer) ==
    IF Len(buffer) < 6 THEN ConverterThrown
    ELSE IF buffer[1] # 1 \/ buffer[2] # 1 THEN ConverterThrown
    ELSE IF Len(buffer) < 6 + ReadUInt32BE(buffer, 2) THEN ConverterThrown
    ELSE ConverterResult(Utf8Decode(SubSeq(buffer, 1, 6 + ReadUInt32BE(buffer, 2)), 7))

\* decodeSVG
DecodeSVG(binaryData) == DecodeBuffer(Base64Decode(binaryData))

\* the longest SVG string, and the strings: text with '<', a letter and a
\* character that takes two bytes
MaxSvgLen == 3
SvgChars == {"<", "a", "<E9>"}
SvgStrings == UNION { [1 .. n -> SvgChars] : n \in 0 .. MaxSvgLen }

\* what can become of the stored bytes: cut short, a header byte changed,
\* the length field one more or one less
Damaged(buffer) ==
    { SubSeq(buffer, 1, n) : n \in 0 .. Len(buffer) - 1 }
    \cup { [buffer EXCEPT ![1] = 2], [buffer EXCEPT ![2] = 0],
           [buffer EXCEPT ![6] = @ + 1] }
    \cup (IF buffer[6] > 0 THEN {[buffer EXCEPT ![6] = @ - 1]} ELSE {})

StartConverter ==
    /\ kpc = "start"
    /\ ksvg \in SvgStrings
    /\ kbuf = <<>>
    /\ kres = <<>>

CallEncodeSVG ==
    /\ kpc = "start"
    /\ kbuf' = EncodeSVG(ksvg)
    /\ kpc' = "encoded"
    /\ UNCHANGED <<ksvg, kres, othersConverter>>

\* the stored data is damaged before it is decoded
DamageData ==
    /\ kpc = "encoded"
    /\ \E b \in Damaged(Base64Decode(kbuf)) : kbuf' = Base64Encode(b)
    /\ kpc' = "damaged"
    /\ UNCHANGED <<ksvg, kres, othersConverter>>

CallDecodeSVG ==
    /\ kpc \in {"encoded", "damaged"}
    /\ kres' = DecodeSVG(kbuf)
    /\ kpc' = IF kpc = "encoded" THEN "decoded" ELSE "decodedDamaged"
    /\ UNCHANGED <<ksvg, kbuf, othersConverter>>

NextConverter == CallEncodeSVG \/ DamageData \/ CallDecodeSVG
InitConverter == StartConverter /\ OthersIdleConverter
SpecConverter == InitConverter /\ [][NextConverter]_vars

\* C17: decodeSVG(encodeSVG(s)) returns s; the encoded data is the header
\* 0x01, 0x01, the big-endian length of the UTF-8 bytes, and the bytes; and
\* decodeSVG throws when the buffer has fewer than 6 bytes, when its first
\* two bytes are not 0x01 0x01, or when fewer bytes than declared follow
\* the header.
C17_ConverterRoundTrip ==
    /\ kpc \in {"encoded", "decoded"} =>
           /\ SubSeq(Base64Decode(kbuf), 1, 2) = <<1, 1>>
           /\ SubSeq(Base64Decode(kbuf), 3, 6) = <<0, 0, 0, Len(Utf8(ksvg))>>
           /\ SubSeq(Base64Decode(kbuf), 7, Len(Base64Decode(kbuf))) = Utf8(ksvg)
    /\ kpc = "decoded" => kres = ConverterResult(ksvg)
    /\ kpc = "decodedDamaged" =>
           ((\/ Len(Base64Decode(kbuf)) < 6
             \/ Base64Decode(kbuf)[1] # 1
             \/ Base64Decode(kbuf)[2] # 1
             \/ Len(Base64Decode(kbuf)) - 6 < Base64Decode(kbuf)[6])
                => kres.thrown)

\* a string with a two-byte character has come back
C17_Witness ==
    /\ kpc = "decoded"
    /\ ksvg = <<"<", "<E9>", "a">>
    /\ Base64Decode(kbuf) = <<1, 1, 0, 0, 0, 4, 60, 195, 169, 97>>
    /\ kres = ConverterResult(<<"<", "<E9>", "a">>)

\* decodeSVG has thrown for data cut short
C17_WitnessThrown ==
    /\ kpc = "decodedDamaged"
    /\ Base64Decode(kbuf) = <<1, 1, 0, 0, 0, 4, 60, 195, 169>>
    /\ kres = ConverterThrown

-----------------------------------------------------------------------------
(* The running pen position of compressPathData and decodePathData,        *)
(* checked under SpecPath                                                  *)

IsNumToken(t) == t.kind = "num"

\* the numbers of path data, in order
Numbers(tokens) == SelectSeq(tokens, IsNumToken)

\* the path holds commands with coordinate pairs only
OnlyPairs(tokens) ==
    \A i \in 1 .. Len(tokens) : tokens[i].kind = "cmd" => tokens[i].letter \in {"M", "L"}

\* C18: for every sequence of absolute commands with coordinate pairs, the
\* decoder adds each decoded delta to the base the encoder subtracted, so every
\* reconstructed coordinate equals the encoder's input coordinate, the first
\* pair of the second and later commands included.
C18_PenPositionReplicated ==
    (ppc = "decoded" /\ OnlyPairs(ptokens) /\ IsQuantized(ptokens)) =>
        ~pres.thrown /\ Numbers(pres.pathData) = Numbers(ptokens)

\* the path M 0 10 L 0 10 L 0 10: the encoder classifies by the index of the
\* token (the x of M and of the second L is taken as Y) and writes the deltas
\* 0 150, -150 150, -150 150; the numbers come back as 0 10, -10 10, -10 10.
\* The same deltas behind the command bytes 1 and 3 decode to the same numbers:
\* the decoder takes the first pair of every command as absolute
C18_Divergence ==
    /\ ppc = "decoded"
    /\ ptokens = <<CmdToken("M"), NumToken(0), NumToken(1000),
                   CmdToken("L"), NumToken(0), NumToken(1000),
                   CmdToken("L"), NumToken(0), NumToken(1000)>>
    /\ pbuf = <<2, 0, 172, 2, 6, 171, 2, 172, 2, 6, 171, 2, 172, 2>>
    /\ Numbers(pres.pathData) = <<NumToken(0), NumToken(1000),
                                  NumToken(0 - 1000), NumToken(1000),
                                  NumToken(0 - 1000), NumToken(1000)>>
    /\ DecodePathData(<<1, 0, 172, 2, 3, 171, 2, 172, 2, 3, 171, 2, 172, 2>>, 0, 14)
           = PathResult(<<CmdToken("M"), NumToken(0), NumToken(1000),
                          CmdToken("L"), NumToken(0 - 1000), NumToken(1000),
                          CmdToken("L"), NumToken(0 - 1000), NumToken(1000)>>)

-----------------------------------------------------------------------------
(* The sign of decodeVarInt's value, checked under SpecVarInt              *)

\* C19: for every byte sequence that ends in a byte with the high bit clear,
\* sequences of five or more bytes included, the value decodeVarInt returns is
\* >= 0 under the 32-bit arithmetic of |= and <<.
C19_ValueIsUnsigned ==
    (vpc \in {"decodedU", "decodedRaw"} /\ ~vres.thrown) => vres.value >= 0

\* the bytes FA FF FF FF 0F: 15 << 28 sets the sign bit and the value is -6
C19_Divergence ==
    /\ vpc = "decodedRaw"
    /\ vbuf = <<250, 255, 255, 255, 15>>
    /\ voff = 0
    /\ vres = [thrown |-> FALSE, value |-> 0 - 6, bytesRead |-> 5, oob |-> FALSE]

\* up to four bytes no group reaches the sign bit and the value is >= 0
C19_UpToFourBytes ==
    (vpc \in {"decodedU", "decodedRaw"} /\ ~vres.thrown /\ vres.bytesRead <= 4)
        => vres.value >= 0

-----------------------------------------------------------------------------
(* The command codes of compressPathData and decodePathData, checked under *)
(* SpecPath                                                                *)

\* the letter a command is to decode to: Z and z both decode to Z
DecodedLetter(l) == IF l = "z" THEN "Z" ELSE l

\* C20: for every command letter of CMD_DICT, the byte compressPathData writes
\* for the command is the code that CMD_DICT of decodePathData maps back to the
\* same letter (Z and z both to Z).
C20_CommandCodes ==
    (ppc = "decoded" /\ ptokens \in LoneCommands) =>
        /\ Len(pbuf) = 1
        /\ DictDefined(CMD_DICT_decompress, pbuf[1])
        /\ DictKey(CMD_DICT_decompress, pbuf[1]) = DecodedLetter(ptokens[1].letter)
        /\ pres = PathResult(<<CmdToken(DecodedLetter(ptokens[1].letter))>>)

\* the code 1 of M is a number in compressed and is written zigzag-encoded as
\* the byte 2, which decodes to m
C20_Divergence ==
    /\ ppc = "decoded"
    /\ ptokens = <<CmdToken("M")>>
    /\ DictCode(CMD_DICT_compress, "M") = 1
    /\ pbuf = <<2>>
    /\ pres = PathResult(<<CmdToken("m")>>)

\* no letter comes back: the byte written is twice the code
C20_NoLetterComesBack ==
    (ppc = "decoded" /\ ptokens \in LoneCommands) =>
        /\ pbuf = <<2 * DictCode(CMD_DICT_compress, ptokens[1].letter)>>
        /\ pres # PathResult(<<CmdToken(DecodedLetter(ptokens[1].letter))>>)

-----------------------------------------------------------------------------
(* Commands and coordinates in the byte stream of compressPathData,        *)
(* checked under SpecPath                                                  *)

\* for every token of path data, whether it is a command or a number
Kinds(tokens) == [i \in 1 .. Len(tokens) |-> tokens[i].kind]

\* C21: the path-data byte stream is unambiguous: no byte sequence written for
\* a quantized coordinate (the small values -10..9 included) is read by
\* decodePathData as a command, and no command byte is read as a coordinate.
C21_StreamUnambiguous ==
    ppc = "decoded" => ~pres.thrown /\ Kinds(pres.pathData) = Kinds(ptokens)

\* M -0.20 -0.20: the coordinate -3 is written as the zigzag byte 5, which
\* decodePathData reads as the command H
C21_Divergence ==
    /\ ppc = "decoded"
    /\ ptokens = <<CmdToken("M"), NumToken(0 - 20), NumToken(0 - 20)>>
    /\ Quantize(0 - 20) = 0 - 3
    /\ pbuf = <<2, 5, 5>>
    /\ pres = PathResult(<<CmdToken("m"), CmdToken("H"), CmdToken("H")>>)

\* Z: the command code 19 is written as the byte 38, which is read as a number
C21_CommandAsCoordinate ==
    /\ ppc = "decoded"
    /\ ptokens = <<CmdToken("Z")>>
    /\ pbuf = <<38>>
    /\ pres = PathResult(<<NumToken(127)>>)

-----------------------------------------------------------------------------
(* Record framing of compressSVG and decompressSVG, checked under SpecDoc  *)

\* the values of currentOffset after each pass of the path loop of
\* decompressSVG that pushed an element
RECURSIVE PathOffsets(_, _, _, _, _)
RECURSIVE PushOffset(_, _, _, _, _)
PathOffsets(buffer, i, pathCount, currentOffset, offsets) ==
    IF i < pathCount /\ currentOffset < Len(buffer)
    THEN PushOffset(buffer, i, pathCount, offsets,
                    DecodePathRecord(buffer, currentOffset))
    ELSE offsets

PushOffset(buffer, i, pathCount, offsets, r) ==
    IF r.thrown THEN offsets
    ELSE PathOffsets(buffer, i + 1, pathCount, r.offset, Append(offsets, r.offset))

\* the offsets of decompressSVG once decodeViewBox has returned view
OffsetsAfterViewBox(buffer, view) ==
    IF view.thrown THEN <<>>
    ELSE <<2 + view.bytesRead>>
             \o PathOffsets(buffer, 0, buffer[2], 2 + view.bytesRead, <<>>)

\* the byte positions in combinedBuffer at which pathBuffers[0], pathBuffers[1],
\* ... start, and the length of combinedBuffer
RECURSIVE RecordStarts(_, _)
RecordStarts(paths, start) ==
    IF paths = <<>> THEN <<start>>
    ELSE <<start>> \o RecordStarts(Tail(paths), start + Len(CompressPath(Head(paths))))

-----------------------------------------------------------------------------
(* compressFilter and compressFilterGroup (the top compressor with filter  *)
(* support, missingOutlineCompress.js) and decompressFilter (its           *)
(* decompressor, unnamed/part_001).  A filter is held as the attribute     *)
(* values compressFilter extracts from the filter definition.              *)

\* encodeVarInt(buffer.length), buffer for buffer = Buffer.from(s)
LengthPrefixed(s) == EncodeVarInt(Len(Utf8(s))) \o Utf8(s)

\* animValuesBuffer: the values when the filter has an <animate> with values
AnimValuesBuffer(f) == IF f.hasCustomAnimation THEN Utf8(f.animationValues) ELSE <<>>

\* compressFilter
CompressFilter(f) ==
    <<4>> \o LengthPrefixed(f.id) \o LengthPrefixed(f.baseFrequency)
        \o LengthPrefixed(f.numOctaves) \o LengthPrefixed(f.seed)
        \o LengthPrefixed(f.scale) \o LengthPrefixed(f.animationDuration)
        \o <<IF f.hasCustomAnimation THEN 1 ELSE 0>>
        \o EncodeVarInt(Len(AnimValuesBuffer(f))) \o AnimValuesBuffer(f)

\* compressFilterGroup
CompressFilterGroup(filterId) == <<5>> \o LengthPrefixed(filterId)

\* a length read by decodeVarInt and the string readString returns for it
StringField(buffer, st, length) ==
    IF length.thrown THEN RecordThrown
    ELSE RecordResult(ReadChars(buffer, st.offset + length.bytesRead, length.value),
                      length.bytesRead + length.value)

ReadString(buffer, st) ==
    IF st.thrown THEN st
    ELSE ReadField(st, StringField(buffer, st, DecodeVarInt(buffer, st.offset)))

StrDefaultValues ==
    <<"0", ".", "0", "2", ";", " ", "0", ".", "0", "5", ";", " ", "0", ".", "0", "8",
      ";", " ", "0", ".", "0", "4", ";", " ", "0", ".", "0", "2">>

\* the animation values once their length is read: nothing is read and the
\* default stays for the length 0
ValuesField(buffer, st, length) ==
    IF length.thrown THEN RecordThrown
    ELSE IF length.value > 0
    THEN RecordResult(ReadChars(buffer, st.offset + length.bytesRead, length.value),
                      length.bytesRead + length.value)
    ELSE RecordResult(StrDefaultValues, length.bytesRead)

\* if (hasCustomAnimation) { ... }, the flag being the field read last
ReadAnimationValues(buffer, st) ==
    IF st.thrown THEN st
    ELSE IF st.fields[7].value = 1
    THEN ReadField(st, ValuesField(buffer, st, DecodeVarInt(buffer, st.offset)))
    ELSE ReadField(st, RecordResult(StrDefaultValues, 0))

\* what decompressFilter returns: the attributes of the element, the id and
\* bytesRead
FilterThrown == [thrown |-> TRUE, fields |-> <<>>, bytesRead |-> 0]
FilterElement(offset, st) ==
    IF st.thrown THEN FilterThrown
    ELSE [thrown |-> FALSE,
          fields |-> [i \in 1 .. 8 |-> st.fields[i].value],
          bytesRead |-> st.offset - offset]

\* decompressFilter: id, baseFrequency, numOctaves, seed, scale, duration, the
\* animation flag and the animation values
DecompressFilter(buffer, offset) ==
    FilterElement(offset,
        ReadAnimationValues(buffer,
            ReadFlags(buffer,
                ReadString(buffer,
                    ReadString(buffer,
                        ReadString(buffer,
                            ReadString(buffer,
                                ReadString(buffer,
                                    ReadString(buffer, ReadStart(offset + 1))))))))))

\* markerByte = buffer[offset] of the loop of decompressSVG, once offset has
\* moved by bytesRead; "end" when the loop ends
NextMarker(buffer, offset) ==
    IF offset < Len(buffer) THEN buffer[offset + 1] ELSE "end"

-----------------------------------------------------------------------------
(* The filter record as a state machine: a filter is compressed, the       *)
(* record that compressSVG pushes next is appended, and the filter is      *)
(* decompressed at offset 0.                                               *)

StrGlitch == <<"g", "l", "i", "t", "c", "h">>

\* the animation of a filter: none, an <animate> with empty values, an
\* <animate> with values
AnimationSamples ==
    { [hasCustomAnimation |-> FALSE, animationValues |-> <<>>],
      [hasCustomAnimation |-> TRUE, animationValues |-> <<>>],
      [hasCustomAnimation |-> TRUE, animationValues |-> <<"0", ";", "1">>] }

FilterSamples ==
    { [id |-> i, baseFrequency |-> b, numOctaves |-> <<"3">>,
       seed |-> <<"1", "0", "0", "0">>, scale |-> s, animationDuration |-> d,
       hasCustomAnimation |-> a.hasCustomAnimation,
       animationValues |-> a.animationValues] :
        i \in {<<"g">>, StrGlitch},
        b \in {<<"0", ".", "0", "2">>, <<>>},
        s \in {<<"1", "5">>, <<"<E9>">>},
        d \in {<<"4", "s">>, <<"1", "0", "s">>},
        a \in AnimationSamples }

\* what compressSVG pushes after the filter: nothing, or the filter group
RestSamples == {<<>>, CompressFilterGroup(<<"g">>), CompressFilterGroup(StrGlitch)}

StartFilter ==
    /\ fpc = "start"
    /\ ffilter \in FilterSamples
    /\ frest \in RestSamples
    /\ fbuf = <<>>
    /\ fres = <<>>

CallCompressFilter ==
    /\ fpc = "start"
    /\ fbuf' = CompressFilter(ffilter) \o frest
    /\ fpc' = "compressed"
    /\ UNCHANGED <<ffilter, frest, fres, othersFilter>>

CallDecompressFilter ==
    /\ fpc = "compressed"
    /\ fres' = [filter |-> DecompressFilter(fbuf, 0),
                marker |-> NextMarker(fbuf, DecompressFilter(fbuf, 0).bytesRead)]
    /\ fpc' = "decoded"
    /\ UNCHANGED <<ffilter, frest, fbuf, othersFilter>>

NextFilter == CallCompressFilter \/ CallDecompressFilter
InitFilter == StartFilter /\ OthersIdleFilter
SpecFilter == InitFilter /\ [][NextFilter]_vars

\* C23: decompressFilter consumes exactly the bytes compressFilter wrote for a
\* filter record, with custom animation values and with none, so the byte
\* after the record is read as the next record's tag.
C23_FilterConsumed ==
    fpc = "decoded" =>
        /\ ~fres.filter.thrown
        /\ fres.filter.bytesRead = Len(CompressFilter(ffilter))
        /\ fres.marker = NextMarker(frest, 0)

\* a filter without animation values, followed by the filter group of 'g':
\* the record ends with the flag 0 and the length 0, decompressFilter stops
\* after the flag, and the length byte is read as the marker of a metadata
\* record
C23_Divergence ==
    /\ fpc = "decoded"
    /\ ffilter.id = <<"g">>
    /\ ~ffilter.hasCustomAnimation
    /\ frest = <<5, 1, 103>>
    /\ SubSeq(fbuf, Len(fbuf) - 4, Len(fbuf)) = <<0, 0, 5, 1, 103>>
    /\ fres.filter.bytesRead = Len(fbuf) - 4
    /\ fres.marker = 0

\* with an <animate> that has values, empty or not, the record is consumed
C23_WithCustomValues ==
    (fpc = "decoded" /\ ffilter.hasCustomAnimation) =>
        /\ ~fres.filter.thrown
        /\ fres.filter.bytesRead = Len(CompressFilter(ffilter))
        /\ fres.marker = NextMarker(frest, 0)

-----------------------------------------------------------------------------
(* parsePath and encodePathData (the nose compressor, the second script of *)
(* missingOutlineCompress.js) and decodePath (decompressNose.js).  Path    *)
(* data is held as the matches of the regular expression of parsePath:     *)
(* command letters and numbers, the numbers in hundredths.  Parameters     *)
(* come in pairs.                                                          *)

PathCommand(cmd, params) == [cmd |-> cmd, params |-> params]

\* commands.push({ cmd: currentCmd, params: [...params] }) if (currentCmd)
PushCommand(commands, currentCmd, params) ==
    IF currentCmd # "" THEN Append(commands, PathCommand(currentCmd, params))
    ELSE commands

\* the while loop of parsePath over the matches from match i on, and the push
\* after the loop
RECURSIVE ParseMatches(_, _, _, _, _)
ParseMatches(tokens, i, commands, currentCmd, params) ==
    IF i > Len(tokens) THEN PushCommand(commands, currentCmd, params)
    ELSE IF tokens[i].kind = "cmd"
    THEN ParseMatches(tokens, i + 1, PushCommand(commands, currentCmd, params),
                      tokens[i].letter, IF currentCmd # "" THEN <<>> ELSE params)
    ELSE ParseMatches(tokens, i + 1, commands, currentCmd,
                      Append(params, tokens[i].value))

\* the loop over the pairs of an 'm' or 'l' command from parameter i on: the
\* optimized parameters, lastX and lastY
RECURSIVE OptimizeParams(_, _, _, _, _, _)
OptimizeParams(params, i, command, lastX, lastY, optimizedParams) ==
    IF i >= Len(params)
    THEN [params |-> optimizedParams, lastX |-> lastX, lastY |-> lastY]
    ELSE OptimizeParams(params, i + 2, command, params[i + 1], params[i + 2],
             IF i = 0 \/ command = "m"
             THEN optimizedParams \o <<params[i + 1], params[i + 2]>>
             ELSE optimizedParams \o <<params[i + 1] - lastX, params[i + 2] - lastY>>)

\* the loop of parsePath over the commands from command k on
RECURSIVE OptimizeCommands(_, _, _, _, _)
RECURSIVE PushOptimized(_, _, _, _)
OptimizeCommands(commands, k, lastX, lastY, optimizedCmds) ==
    IF k > Len(commands) THEN optimizedCmds
    ELSE IF commands[k].cmd \in {"m", "l"}
    THEN PushOptimized(commands, k, optimizedCmds,
                       OptimizeParams(commands[k].params, 0, commands[k].cmd,
                                      lastX, lastY, <<>>))
    ELSE OptimizeCommands(commands, k + 1, lastX, lastY,
                          Append(optimizedCmds, commands[k]))

PushOptimized(commands, k, optimizedCmds, r) ==
    OptimizeCommands(commands, k + 1, r.lastX, r.lastY,
                     Append(optimizedCmds, PathCommand(commands[k].cmd, r.params)))

\* parsePath
ParsePath(tokens) ==
    OptimizeCommands(ParseMatches(tokens, 1, <<>>, "", <<>>), 1, 0, 0, <<>>)

\* a variant of parsePath that passes every command through unchanged
ParsePathPlain(tokens) == ParseMatches(tokens, 1, <<>>, "", <<>>)

\* Math.round(param * 20) for a param in hundredths
Quantize20(h) == (2 * h + 5) \div 10

RECURSIVE EncodeParamsNose(_)
EncodeParamsNose(params) ==
    IF params = <<>> THEN <<>>
    ELSE EncodeSignedVarInt(Quantize20(Head(params))) \o EncodeParamsNose(Tail(params))

RECURSIVE EncodeCommandsNose(_)
EncodeCommandsNose(pathCommands) ==
    IF pathCommands = <<>> THEN <<>>
    ELSE <<CharCode(Head(pathCommands).cmd)>>
             \o EncodeVarInt(Len(Head(pathCommands).params))
             \o EncodeParamsNose(Head(pathCommands).params)
             \o EncodeCommandsNose(Tail(pathCommands))

\* encodePathData
EncodePathData(pathCommands) ==
    EncodeVarInt(Len(pathCommands)) \o EncodeCommandsNose(pathCommands)

\* (q / 20).toFixed(2)
ToFixed2Nose(q) ==
    (IF q < 0 THEN <<"-">> ELSE <<>>)
        \o DecString(((IF q < 0 THEN 0 - q ELSE q) * 5) \div 100) \o <<".">>
        \o DecString((((IF q < 0 THEN 0 - q ELSE q) * 5) % 100) \div 10)
        \o DecString(((IF q < 0 THEN 0 - q ELSE q) * 5) % 10)

\* the parameter loop of decodePath from parameter j on
RECURSIVE DecodeParamsNose(_, _, _, _, _, _)
RECURSIVE AddParamNose(_, _, _, _, _, _, _)
DecodeParamsNose(buffer, currentOffset, j, paramCount, cmdChar, pathData) ==
    IF j < paramCount /\ currentOffset < Len(buffer)
    THEN AddParamNose(buffer, currentOffset, j, paramCount, cmdChar, pathData,
                      DecodeSignedVarInt(buffer, currentOffset))
    ELSE RecordResult(pathData, currentOffset)

AddParamNose(buffer, currentOffset, j, paramCount, cmdChar, pathData, param) ==
    IF param.thrown THEN RecordThrown
    ELSE DecodeParamsNose(buffer, currentOffset + param.bytesRead, j + 1,
                          paramCount, cmdChar,
                          pathData
                              \o (IF j > 0 \/ cmdChar \notin {"m", "M"}
                                  THEN <<" ">> ELSE <<>>)
                              \o ToFixed2Nose(param.value))

\* the command loop of decodePath from command i on
RECURSIVE DecodeCommandsNose(_, _, _, _, _)
RECURSIVE CommandParamsNose(_, _, _, _, _, _)
RECURSIVE NextCommandNose(_, _, _, _)
DecodeCommandsNose(buffer, currentOffset, i, cmdCount, pathData) ==
    IF i < cmdCount /\ currentOffset < Len(buffer)
    THEN CommandParamsNose(buffer, currentOffset, i, cmdCount, pathData,
                           DecodeVarInt(buffer, currentOffset + 1))
    ELSE RecordResult(pathData, currentOffset)

CommandParamsNose(buffer, currentOffset, i, cmdCount, pathData, paramCount) ==
    IF paramCount.thrown THEN RecordThrown
    ELSE NextCommandNose(buffer, i, cmdCount,
             DecodeParamsNose(buffer, currentOffset + 1 + paramCount.bytesRead,
                              0, paramCount.value,
                              FromCharCode(buffer[currentOffset + 1]),
                              pathData \o <<FromCharCode(buffer[currentOffset + 1])>>))

NextCommandNose(buffer, i, cmdCount, params) ==
    IF params.thrown THEN RecordThrown
    ELSE DecodeCommandsNose(buffer, params.bytesRead, i + 1, cmdCount, params.value)

PathCommandsNose(buffer, offset, cmdCount) ==
    IF cmdCount.thrown THEN RecordThrown
    ELSE PathBytesReadPhil(offset,
             DecodeCommandsNose(buffer, offset + cmdCount.bytesRead, 0,
                                cmdCount.value, <<>>))

\* decodePath of decompressNose.js
DecodePathNose(buffer, offset) ==
    PathCommandsNose(buffer, offset, DecodeVarInt(buffer, offset))

-----------------------------------------------------------------------------
(* The nose path codec as a state machine: path data is parsed and         *)
(* encoded, and the buffer is decoded at offset 0.                         *)

NoseCoords == {0, 100, 0 - 25, 333}
NosePoint == { <<NumToken(x), NumToken(y)>> : x \in NoseCoords, y \in NoseCoords }

\* M x y, then one of l, m, L with one or two coordinate pairs
NoseInputs ==
    { <<CmdToken("M")>> \o p \o <<CmdToken(c)>> \o q \o r :
          p \in {<<NumToken(0), NumToken(0)>>, <<NumToken(100), NumToken(0 - 25)>>},
          c \in {"l", "m", "L"}, q \in NosePoint, r \in NosePoint \cup {<<>>} }

StartNose ==
    /\ npc = "start"
    /\ ntokens \in NoseInputs
    /\ nbuf = <<>>
    /\ nres = <<>>

CallEncodePathData ==
    /\ npc = "start"
    /\ nbuf' = EncodePathData(ParsePath(ntokens))
    /\ npc' = "encoded"
    /\ UNCHANGED <<ntokens, nres, othersNose>>

CallDecodePathNose ==
    /\ npc = "encoded"
    /\ nres' = DecodePathNose(nbuf, 0)
    /\ npc' = "decoded"
    /\ UNCHANGED <<ntokens, nbuf, othersNose>>

NextNose == CallEncodePathData \/ CallDecodePathNose
InitNose == StartNose /\ OthersIdleNose
SpecNose == InitNose /\ [][NextNose]_vars

\* the text of the parameters of a command, each rounded to 1/20
RECURSIVE RoundedParamsText(_, _, _)
RoundedParamsText(cmd, params, j) ==
    IF j >= Len(params) THEN <<>>
    ELSE (IF j > 0 \/ cmd \notin {"m", "M"} THEN <<" ">> ELSE <<>>)
             \o ToFixed2Nose(Quantize20(params[j + 1]))
             \o RoundedParamsText(cmd, params, j + 1)

\* the text of path commands with every parameter rounded to 1/20
RECURSIVE RoundedPathText(_)
RoundedPathText(commands) ==
    IF commands = <<>> THEN <<>>
    ELSE <<Head(commands).cmd>> \o RoundedParamsText(Head(commands).cmd, Head(commands).params, 0)
             \o RoundedPathText(Tail(commands))

\* C24: for every path, an 'l' or 'm' command with two or more coordinate
\* pairs included, decodePath(encodePathData(parsePath(d))) has the commands
\* and parameter counts of d and, per parameter p, the value round(p * 20) / 20.
C24_NoseRoundTrip ==
    npc = "decoded" =>
        /\ ~nres.thrown
        /\ nres.value = RoundedPathText(ParsePathPlain(ntokens))
        /\ nres.bytesRead = Len(nbuf)

\* M 0 0 l 1 1 3.33 3.33: parsePath replaces the second pair of 'l' by its
\* difference to the first pair, 2.33 2.33, which decodePath prints as it is
C24_Divergence ==
    /\ npc = "decoded"
    /\ ntokens = <<CmdToken("M"), NumToken(0), NumToken(0), CmdToken("l"),
                   NumToken(100), NumToken(100), NumToken(333), NumToken(333)>>
    /\ nbuf = <<2, 77, 2, 0, 0, 108, 4, 40, 40, 94, 94>>
    /\ nres.value = <<"M", "0", ".", "0", "0", " ", "0", ".", "0", "0",
                      "l", " ", "1", ".", "0", "0", " ", "1", ".", "0", "0",
                      " ", "2", ".", "3", "5", " ", "2", ".", "3", "5">>
    /\ RoundedPathText(ParsePathPlain(ntokens))
           = <<"M", "0", ".", "0", "0", " ", "0", ".", "0", "0",
               "l", " ", "1", ".", "0", "0", " ", "1", ".", "0", "0",
               " ", "3", ".", "3", "5", " ", "3", ".", "3", "5">>

\* every path but those with an 'l' of two or more pairs comes back rounded
C24_ButLongLineTo ==
    (/\ npc = "decoded"
     /\ \A k \in 1 .. Len(ParsePathPlain(ntokens)) :
            ParsePathPlain(ntokens)[k].cmd = "l"
                => Len(ParsePathPlain(ntokens)[k].params) <= 2)
        => /\ ~nres.thrown
           /\ nres.value = RoundedPathText(ParsePathPlain(ntokens))
           /\ nres.bytesRead = Len(nbuf)

-----------------------------------------------------------------------------
(* encodeFloat and encodePath (workingPhilCompress.js), whose              *)
(* QUANTIZATION_SCALE is 10, against decodePath of the Phil decompressor.  *)
(* Parameters are held in hundredths.                                      *)

\* encodeFloat(value) for a coordinate
EncodeFloatPhil(h) == EncodeSignedVarInt(RoundTenth(h))

RECURSIVE EncodeParamsPhil(_)
EncodeParamsPhil(params) ==
    IF params = <<>> THEN <<>>
    ELSE EncodeFloatPhil(Head(params)) \o EncodeParamsPhil(Tail(params))

RECURSIVE EncodeCommandsPhil(_)
EncodeCommandsPhil(pathCommands) ==
    IF pathCommands = <<>> THEN <<>>
    ELSE <<CharCode(Head(pathCommands).cmd)>>
             \o EncodeVarInt(Len(Head(pathCommands).params))
             \o EncodeParamsPhil(Head(pathCommands).params)
             \o EncodeCommandsPhil(Tail(pathCommands))

\* encodePath
EncodePathPhil(pathCommands) ==
    EncodeVarInt(Len(pathCommands)) \o EncodeCommandsPhil(pathCommands)

-----------------------------------------------------------------------------
(* The Phil path codec as a state machine: a list of commands is encoded   *)
(* and the buffer is decoded at offset 0.                                  *)

\* the greatest number of commands of a list
MaxCommands == 2

\* parameters in hundredths: 0, 3.33, -0.25 and the extremes, which round to
\* 2^27 - 1 and -(2^27 - 1) tenths
PhilParams == {0, 333, 0 - 25, 1342177270, 0 - 1342177270}

CommandSamples ==
    { PathCommand("M", <<x, 0 - 25>>) : x \in PhilParams }
    \cup { PathCommand("l", <<0, y>>) : y \in {333, 0 - 1342177270} }
    \cup { PathCommand("Z", <<>>), PathCommand("H", <<333>>),
           PathCommand("C", <<0, 0 - 25, 333, 0, 1342177270, 333>>) }

RECURSIVE CommandLists(_)
CommandLists(n) ==
    IF n = 0 THEN {<<>>}
    ELSE CommandLists(n - 1)
         \cup { Append(l, c) : l \in { k \in CommandLists(n - 1) : Len(k) = n - 1 },
                               c \in CommandSamples }

StartPhilPath ==
    /\ qpc = "start"
    /\ qcmds \in CommandLists(MaxCommands)
    /\ qbuf = <<>>
    /\ qres = <<>>

CallEncodePath ==
    /\ qpc = "start"
    /\ qbuf' = EncodePathPhil(qcmds)
    /\ qpc' = "encoded"
    /\ UNCHANGED <<qcmds, qres, othersPhilPath>>

CallDecodePath ==
    /\ qpc = "encoded"
    /\ qres' = DecodePathPhil(qbuf, 0)
    /\ qpc' = "decoded"
    /\ UNCHANGED <<qcmds, qbuf, othersPhilPath>>

NextPhilPath == CallEncodePath \/ CallDecodePath
InitPhilPath == StartPhilPath /\ OthersIdlePhilPath
SpecPhilPath == InitPhilPath /\ [][NextPhilPath]_vars

\* the text of the parameters of a command, each rounded to 1/10
RECURSIVE TenthsParamsText(_, _, _)
TenthsParamsText(cmd, params, j) ==
    IF j >= Len(params) THEN <<>>
    ELSE (IF j > 0 \/ cmd \notin {"m", "M"} THEN <<" ">> ELSE <<>>)
             \o ToFixed1(RoundTenth(params[j + 1]))
             \o TenthsParamsText(cmd, params, j + 1)

\* the text of path commands with every parameter rounded to 1/10
RECURSIVE TenthsPathText(_)
TenthsPathText(commands) ==
    IF commands = <<>> THEN <<>>
    ELSE <<Head(commands).cmd>>
             \o TenthsParamsText(Head(commands).cmd, Head(commands).params, 0)
             \o TenthsPathText(Tail(commands))

\* C25: for every list of path commands whose parameters p satisfy
\* |round(p * 10)| < 2^27, decodePath(encodePath(cmds)) yields the same command
\* letters in order, the same number of parameters per command and per
\* parameter the value round(p * 10) / 10, and bytesRead is the length of the
\* encoded bytes.
C25_PhilPathRoundTrip ==
    qpc = "decoded" =>
        /\ ~qres.thrown
        /\ qres.value = TenthsPathText(qcmds)
        /\ qres.bytesRead = Len(qbuf)

\* two commands: a move to the negative extreme and the curve to the
\* positive extreme
C25_Witness ==
    /\ qpc = "decoded"
    /\ qcmds = <<PathCommand("M", <<0 - 1342177270, 0 - 25>>),
                 PathCommand("C", <<0, 0 - 25, 333, 0, 1342177270, 333>>)>>
    /\ qbuf = <<2, 77, 2, 253, 255, 255, 127, 3,
                67, 6, 0, 3, 66, 0, 254, 255, 255, 127, 66>>
    /\ qres.value
           = <<"M", "-", "1", "3", "4", "2", "1", "7", "7", "2", ".", "7",
               " ", "-", "0", ".", "2",
               "C", " ", "0", ".", "0", " ", "-", "0", ".", "2", " ", "3", ".", "3",
               " ", "0", ".", "0", " ", "1", "3", "4", "2", "1", "7", "7", "2", ".", "7",
               " ", "3", ".", "3">>
    /\ qres.bytesRead = 19

-----------------------------------------------------------------------------
(* encodeCoordinate (noGlitchTopCompress.js) and decodeCoordinate          *)
(* (noGlitchTopDecompress.js).  A coordinate is held in tenths, as are the *)
(* values decodeCoordinate returns.                                        *)

\* encodeCoordinate(value): Math.round(parseFloat(value) * 10) is the number
\* of tenths
EncodeCoordinate(tenths) == EncodeVarInt(tenths)

\* decodeCoordinate(buffer, offset)
DecodeCoordinate(buffer, offset) == DecodeVarInt(buffer, offset)

-----------------------------------------------------------------------------
(* The coordinate codec as a state machine: a coordinate is encoded, the   *)
(* bytes of what compressLine or compressText writes next are appended,    *)
(* and the coordinate is decoded at offset 0.                              *)

\* the coordinates from -DenseCoord to DenseCoord tenths, and greater ones
DenseCoord == 12
CoordinateSamples ==
    (0 - DenseCoord .. DenseCoord)
    \cup {127, 128, 4200, Pow2(27) - 1, 0 - 128, 0 - 4200, 1 - Pow2(27)}

\* what follows a coordinate: nothing, the coordinate 1.0, the coordinate 12.8
FollowingBytes == {<<>>, <<10>>, <<128, 1>>}

StartCoord ==
    /\ tpc = "start"
    /\ tcoord \in CoordinateSamples
    /\ trest \in FollowingBytes
    /\ tbuf = <<>>
    /\ tres = <<>>

CallEncodeCoordinate ==
    /\ tpc = "start"
    /\ tbuf' = EncodeCoordinate(tcoord) \o trest
    /\ tpc' = "encoded"
    /\ UNCHANGED <<tcoord, trest, tres, othersCoord>>

CallDecodeCoordinate ==
    /\ tpc = "encoded"
    /\ tres' = DecodeCoordinate(tbuf, 0)
    /\ tpc' = "decoded"
    /\ UNCHANGED <<tcoord, trest, tbuf, othersCoord>>

NextCoord == CallEncodeCoordinate \/ CallDecodeCoordinate
InitCoord == StartCoord /\ OthersIdleCoord
SpecCoord == InitCoord /\ [][NextCoord]_vars

\* C26: for every coordinate c that is a multiple of 0.1 with
\* |c * 10| < 2^27, negative values included,
\* decodeCoordinate(encodeCoordinate(c)) returns c and consumes exactly the
\* bytes written.
C26_CoordinateRoundTrip ==
    tpc = "decoded" =>
        /\ ~tres.thrown
        /\ tres.value = tcoord
        /\ tres.bytesRead = Len(EncodeCoordinate(tcoord))

\* -1.0 followed by 1.0: encodeVarInt writes -10 as the one byte F6, whose
\* high bit is set, and decodeCoordinate reads both bytes as 139.8
C26_Divergence ==
    /\ tpc = "decoded"
    /\ tcoord = 0 - 10
    /\ trest = <<10>>
    /\ tbuf = <<246, 10>>
    /\ tres.value = 1398
    /\ tres.bytesRead = 2

\* -1.0 at the end of the buffer: decodeVarInt throws
C26_NegativeAtEnd ==
    /\ tpc = "decoded"
    /\ tcoord = 0 - 10
    /\ tbuf = <<246>>
    /\ tres.thrown

\* coordinates that are not negative come back
C26_NonNegative ==
    (tpc = "decoded" /\ tcoord >= 0) =>
        /\ ~tres.thrown
        /\ tres.value = tcoord
        /\ tres.bytesRead = Len(EncodeCoordinate(tcoord))

-----------------------------------------------------------------------------
(* The gradient reference of compressBg.js and decompressBg.js as a state  *)
(* machine: the fill 'url(#id)' of a circle group is encoded, the circle   *)
(* count that compressCircles writes after it is appended, and the colour  *)
(* is decoded at offset 0.                                                 *)

\* the greatest number of circles of a group
MaxCircles == 40

GradientIds == { <<"c", "o", "r", "e", "G", "l", "o", "w">>, <<"g">>, <<"a", "1">> }

\* 'url(#id)'
UrlOf(id) == StrUrlHash \o id \o StrUrlClose

\* what follows the fill: nothing, or encodeVarInt(coords.length)
CircleCounts == {<<>>} \cup { EncodeVarInt(n) : n \in 0 .. MaxCircles }

StartGradient ==
    /\ ypc = "start"
    /\ yid \in GradientIds
    /\ yrest \in CircleCounts
    /\ ybuf = <<>>
    /\ yres = <<>>

CallEncodeColorBg ==
    /\ ypc = "start"
    /\ ybuf' = EncodeColorBg(UrlOf(yid)) \o yrest
    /\ ypc' = "encoded"
    /\ UNCHANGED <<yid, yrest, yres, othersGradient>>

CallDecodeColorBg ==
    /\ ypc = "encoded"
    /\ yres' = DecodeColorBg(ybuf, 0)
    /\ ypc' = "decoded"
    /\ UNCHANGED <<yid, yrest, ybuf, othersGradient>>

NextGradient == CallEncodeColorBg \/ CallDecodeColorBg
InitGradient == StartGradient /\ OthersIdleGradient
SpecGradient == InitGradient /\ [][NextGradient]_vars

\* C27: a gradient reference is self-delimiting: for every gradient id,
\* decodeColor applied to the bytes of encodeColor('url(#id)'), followed by any
\* further record bytes such as the circle count, returns 'url(#id)' and
\* bytesRead equal to the number of bytes encodeColor wrote.
C27_GradientSelfDelimiting ==
    ypc = "decoded" =>
        /\ ~yres.thrown
        /\ yres.color = UrlOf(yid)
        /\ yres.bytesRead = Len(EncodeColorBg(UrlOf(yid)))

\* 'url(#g)' before the count of 40 circles: encodeColor writes FF and the
\* characters 'g)', and decodeColor reads on through the count byte 40, the
\* character '('
C27_Divergence ==
    /\ ypc = "decoded"
    /\ yid = <<"g">>
    /\ yrest = <<40>>
    /\ ybuf = <<255, 103, 41, 40>>
    /\ yres = ColorResult(<<"u", "r", "l", "(", "#", "g", ")", "(", ")">>, 4)

\* 'url(#g)' before the count of 3 circles: the bytes are consumed as written,
\* but the id comes back with the ')' that the encoder took into it
C27_ClosingParenthesis ==
    /\ ypc = "decoded"
    /\ yid = <<"g">>
    /\ yrest = <<3>>
    /\ ybuf = <<255, 103, 41, 3>>
    /\ yres = ColorResult(<<"u", "r", "l", "(", "#", "g", ")", ")">>, 3)

\* below 32 circles the count is not a printable character and the bytes
\* read are the bytes written
C27_BytesReadBelow32 ==
    (ypc = "decoded" /\ yrest # <<>> /\ yrest[1] < 32) =>
        yres.bytesRead = Len(EncodeColorBg(UrlOf(yid)))

-----------------------------------------------------------------------------
(* decompressSVG of decompressBg.js, from the buffer that                  *)
(* Buffer.from(compressedData, 'base64') gives.  Coordinates are kept in   *)
(* tenths and opacities in thousandths, as they are stored.  Math.random   *)
(* is the one input that is not in the buffer: a run draws its values      *)
(* from a stream, and the values are quarters (0, 0.25, 0.5, 0.75).        *)

StrNaN == <<"N", "a", "N">>
StrQuote == <<"\"">>
StrCoreGlow == <<"c", "o", "r", "e", "G", "l", "o", "w">>
StrUrlCoreGlow == StrUrlHash \o StrCoreGlow \o StrUrlClose
StrSvgOpen ==
    <<"<", "s", "v", "g", " ", "x", "m", "l", "n", "s", "=", "\"", "h", "t",
      "t", "p", ":", "/", "/", "w", "w", "w", ".", "w", "3", ".", "o", "r",
      "g", "/", "2", "0", "0", "0", "/", "s", "v", "g", "\"", " ", "v", "i",
      "e", "w", "B", "o", "x", "=", "\"">>
StrSvgClose == <<"<", "/", "s", "v", "g", ">">>
StrElementClose == <<"/", ">">>
StrTagOpenEnd == <<"\"", ">">>
StrCircleCx == <<"<", "c", "i", "r", "c", "l", "e", " ", "c", "x", "=", "\"">>
StrCy == <<"\"", " ", "c", "y", "=", "\"">>
StrR == <<"\"", " ", "r", "=", "\"">>
StrFill == <<"\"", " ", "f", "i", "l", "l", "=", "\"">>
StrOpacity == <<" ", "o", "p", "a", "c", "i", "t", "y", "=", "\"">>
StrRectX == <<"<", "r", "e", "c", "t", " ", "x", "=", "\"">>
StrY == <<"\"", " ", "y", "=", "\"">>
StrWidth == <<"\"", " ", "w", "i", "d", "t", "h", "=", "\"">>
StrHeight == <<"\"", " ", "h", "e", "i", "g", "h", "t", "=", "\"">>
StrDefaultRect ==
    <<"<", "r", "e", "c", "t", " ", "x", "=", "\"", "0", "\"", " ", "y", "=",
      "\"", "0", "\"", " ", "w", "i", "d", "t", "h", "=", "\"", "4", "2",
      "0", "\"", " ", "h", "e", "i", "g", "h", "t", "=", "\"", "4", "2", "0",
      "\"", " ", "f", "i", "l", "l", "=", "\"", "#", "0", "0", "0", "0", "0",
      "0", "\"", "/", ">">>
StrCoreCircleTail ==
    <<"\"", " ", "r", "=", "\"", "3", "0", "\"", " ", "f", "i", "l", "l",
      "=", "\"", "u", "r", "l", "(", "#", "c", "o", "r", "e", "G", "l", "o",
      "w", ")", "\"", " ", "o", "p", "a", "c", "i", "t", "y", "=", "\"", "1",
      ".", "0", "\"", "/", ">">>
StrStarFill ==
    <<"\"", " ", "f", "i", "l", "l", "=", "\"", "#", "F", "F", "F", "F", "F",
      "F", "\"", " ", "o", "p", "a", "c", "i", "t", "y", "=", "\"">>
StrStopOffset ==
    <<"<", "s", "t", "o", "p", " ", "o", "f", "f", "s", "e", "t", "=", "\"">>
StrStopColor ==
    <<"%", "\"", " ", "s", "t", "o", "p", "-", "c", "o", "l", "o", "r", "=",
      "\"">>
StrStopOpacity ==
    <<" ", "s", "t", "o", "p", "-", "o", "p", "a", "c", "i", "t", "y", "=",
      "\"">>
StrDefsOpen ==
    <<"<", "d", "e", "f", "s", ">", "<0A>", " ", " ", "<">>
StrId ==
    <<" ", "i", "d", "=", "\"">>
StrStopsOpen ==
    <<"\"", ">", "<0A>", " ", " ", " ", " ">>
StrStopsJoin ==
    <<"<0A>", " ", " ", " ", " ">>
StrGradientClose ==
    <<"<0A>", " ", " ", "<", "/">>
StrDefsClose ==
    <<">", "<0A>", "<", "/", "d", "e", "f", "s", ">">>
StrRadialGradient ==
    <<"r", "a", "d", "i", "a", "l", "G", "r", "a", "d", "i", "e", "n", "t">>
StrLinearGradient ==
    <<"l", "i", "n", "e", "a", "r", "G", "r", "a", "d", "i", "e", "n", "t">>

\* createDefaultGalaxyGradient()
CreateDefaultGalaxyGradient ==
    <<"<", "d", "e", "f", "s", ">", "<0A>", " ", " ", " ", " ", "<", "r",
      "a", "d", "i", "a", "l", "G", "r", "a", "d", "i", "e", "n", "t", " ",
      "i", "d", "=", "\"", "c", "o", "r", "e", "G", "l", "o", "w", "\"", ">",
      "<0A>", " ", " ", " ", " ", " ", " ", "<", "s", "t", "o", "p", " ",
      "o", "f", "f", "s", "e", "t", "=", "\"", "0", "%", "\"", " ", "s", "t",
      "o", "p", "-", "c", "o", "l", "o", "r", "=", "\"", "#", "F", "F", "A",
      "5", "0", "0", "\"", " ", "s", "t", "o", "p", "-", "o", "p", "a", "c",
      "i", "t", "y", "=", "\"", "1", "\"", "/", ">", "<0A>", " ", " ", " ",
      " ", " ", " ", "<", "s", "t", "o", "p", " ", "o", "f", "f", "s", "e",
      "t", "=", "\"", "5", "0", "%", "\"", " ", "s", "t", "o", "p", "-", "c",
      "o", "l", "o", "r", "=", "\"", "#", "E", "8", "A", "8", "5", "2", "\"",
      " ", "s", "t", "o", "p", "-", "o", "p", "a", "c", "i", "t", "y", "=",
      "\"", "0", ".", "8", "\"", "/", ">", "<0A>", " ", " ", " ", " ", " ",
      " ", "<", "s", "t", "o", "p", " ", "o", "f", "f", "s", "e", "t", "=",
      "\"", "1", "0", "0", "%", "\"", " ", "s", "t", "o", "p", "-", "c", "o",
      "l", "o", "r", "=", "\"", "#", "E", "8", "A", "8", "5", "2", "\"", " ",
      "s", "t", "o", "p", "-", "o", "p", "a", "c", "i", "t", "y", "=", "\"",
      "0", "\"", "/", ">", "<0A>", " ", " ", " ", " ", "<", "/", "r", "a",
      "d", "i", "a", "l", "G", "r", "a", "d", "i", "e", "n", "t", ">",
      "<0A>", " ", " ", "<", "/", "d", "e", "f", "s", ">">>

\* createFallbackGalaxy()
CreateFallbackGalaxy ==
    <<"<", "s", "v", "g", " ", "x", "m", "l", "n", "s", "=", "\"", "h", "t",
      "t", "p", ":", "/", "/", "w", "w", "w", ".", "w", "3", ".", "o", "r",
      "g", "/", "2", "0", "0", "0", "/", "s", "v", "g", "\"", " ", "v", "i",
      "e", "w", "B", "o", "x", "=", "\"", "0", " ", "0", " ", "4", "2", "0",
      " ", "4", "2", "0", "\"", ">", "<0A>", " ", " ", "<", "d", "e", "f",
      "s", ">", "<0A>", " ", " ", " ", " ", "<", "r", "a", "d", "i", "a",
      "l", "G", "r", "a", "d", "i", "e", "n", "t", " ", "i", "d", "=", "\"",
      "c", "o", "r", "e", "G", "l", "o", "w", "\"", ">", "<0A>", " ", " ",
      " ", " ", " ", " ", "<", "s", "t", "o", "p", " ", "o", "f", "f", "s",
      "e", "t", "=", "\"", "0", "%", "\"", " ", "s", "t", "o", "p", "-", "c",
      "o", "l", "o", "r", "=", "\"", "#", "E", "8", "A", "8", "5", "2", "\"",
      " ", "s", "t", "o", "p", "-", "o", "p", "a", "c", "i", "t", "y", "=",
      "\"", "1", "\"", "/", ">", "<0A>", " ", " ", " ", " ", " ", " ", "<",
      "s", "t", "o", "p", " ", "o", "f", "f", "s", "e", "t", "=", "\"", "5",
      "0", "%", "\"", " ", "s", "t", "o", "p", "-", "c", "o", "l", "o", "r",
      "=", "\"", "#", "E", "8", "A", "8", "5", "2", "\"", " ", "s", "t", "o",
      "p", "-", "o", "p", "a", "c", "i", "t", "y", "=", "\"", "0", ".", "5",
      "\"", "/", ">", "<0A>", " ", " ", " ", " ", " ", " ", "<", "s", "t",
      "o", "p", " ", "o", "f", "f", "s", "e", "t", "=", "\"", "1", "0", "0",
      "%", "\"", " ", "s", "t", "o", "p", "-", "c", "o", "l", "o", "r", "=",
      "\"", "#", "E", "8", "A", "8", "5", "2", "\"", " ", "s", "t", "o", "p",
      "-", "o", "p", "a", "c", "i", "t", "y", "=", "\"", "0", "\"", "/", ">",
      "<0A>", " ", " ", " ", " ", "<", "/", "r", "a", "d", "i", "a", "l",
      "G", "r", "a", "d", "i", "e", "n", "t", ">", "<0A>", " ", " ", "<",
      "/", "d", "e", "f", "s", ">", "<0A>", " ", " ", "<", "r", "e", "c",
      "t", " ", "x", "=", "\"", "0", "\"", " ", "y", "=", "\"", "0", "\"",
      " ", "w", "i", "d", "t", "h", "=", "\"", "4", "2", "0", "\"", " ", "h",
      "e", "i", "g", "h", "t", "=", "\"", "4", "2", "0", "\"", " ", "f", "i",
      "l", "l", "=", "\"", "#", "0", "0", "0", "0", "0", "0", "\"", "/", ">",
      "<0A>", " ", " ", "<", "c", "i", "r", "c", "l", "e", " ", "c", "x",
      "=", "\"", "2", "1", "0", "\"", " ", "c", "y", "=", "\"", "2", "1",
      "0", "\"", " ", "r", "=", "\"", "3", "0", "\"", " ", "f", "i", "l",
      "l", "=", "\"", "u", "r", "l", "(", "#", "c", "o", "r", "e", "G", "l",
      "o", "w", ")", "\"", " ", "o", "p", "a", "c", "i", "t", "y", "=", "\"",
      "0", ".", "8", "5", "\"", "/", ">", "<0A>", " ", " ", "<", "c", "i",
      "r", "c", "l", "e", " ", "c", "x", "=", "\"", "1", "2", "0", "\"", " ",
      "c", "y", "=", "\"", "1", "2", "0", "\"", " ", "r", "=", "\"", "2",
      "\"", " ", "f", "i", "l", "l", "=", "\"", "#", "F", "F", "F", "F", "F",
      "F", "\"", " ", "o", "p", "a", "c", "i", "t", "y", "=", "\"", "0", ".",
      "8", "\"", "/", ">", "<0A>", " ", " ", "<", "c", "i", "r", "c", "l",
      "e", " ", "c", "x", "=", "\"", "2", "8", "0", "\"", " ", "c", "y", "=",
      "\"", "1", "6", "0", "\"", " ", "r", "=", "\"", "1", ".", "5", "\"",
      " ", "f", "i", "l", "l", "=", "\"", "#", "F", "F", "F", "F", "F", "F",
      "\"", " ", "o", "p", "a", "c", "i", "t", "y", "=", "\"", "0", ".", "6",
      "\"", "/", ">", "<0A>", " ", " ", "<", "c", "i", "r", "c", "l", "e",
      " ", "c", "x", "=", "\"", "3", "5", "0", "\"", " ", "c", "y", "=",
      "\"", "2", "8", "0", "\"", " ", "r", "=", "\"", "1", "\"", " ", "f",
      "i", "l", "l", "=", "\"", "#", "F", "F", "F", "F", "F", "F", "\"", " ",
      "o", "p", "a", "c", "i", "t", "y", "=", "\"", "0", ".", "7", "\"", "/",
      ">", "<0A>", " ", " ", "<", "c", "i", "r", "c", "l", "e", " ", "c",
      "x", "=", "\"", "1", "0", "0", "\"", " ", "c", "y", "=", "\"", "3",
      "2", "0", "\"", " ", "r", "=", "\"", "1", ".", "2", "\"", " ", "f",
      "i", "l", "l", "=", "\"", "#", "F", "F", "F", "F", "F", "F", "\"", " ",
      "o", "p", "a", "c", "i", "t", "y", "=", "\"", "0", ".", "5", "\"", "/",
      ">", "<0A>", "<", "/", "s", "v", "g", ">">>

\* s.includes(sub)
Includes(s, sub) ==
    \E i \in 1 .. Len(s) - Len(sub) + 1 : SubSeq(s, i, i + Len(sub) - 1) = sub

\* n digits of a after the decimal point, a < 10^n
RECURSIVE Decimals(_, _)
Decimals(a, n) ==
    IF n = 0 THEN <<>>
    ELSE Append(Decimals(a \div 10, n - 1), UpperHexDigits[(a % 10) + 1])

\* the magnitude a / 10^n printed with n decimals, and the sign put before it
FixedText(negative, a, scale, n) ==
    (IF negative THEN <<"-">> ELSE <<>>)
        \o DecString(a \div scale) \o <<".">> \o Decimals(a % scale, n)

\* (t / 10).toFixed(2), t a number of tenths
ToFixed2Bg(t) == FixedText(t < 0, 10 * (IF t < 0 THEN 0 - t ELSE t), 100, 2)

\* (o / 1000).toFixed(3), o a number of thousandths
ToFixed3Bg(o) == FixedText(FALSE, o, 1000, 3)

\* (h / 2).toFixed(1), h a number of halves
HalfToFixed1(h) == FixedText(h < 0, 5 * (IF h < 0 THEN 0 - h ELSE h), 10, 1)

\* (h / 100).toFixed(1), h a number of hundredths whose value is exact in
\* binary: the nearest tenth, the larger one of two equally near
HundredthsToFixed1(h) ==
    FixedText(h < 0, ((IF h < 0 THEN 0 - h ELSE h) + 5) \div 10, 10, 1)

\* decodeFloat(buffer, offset) of decompressBg.js: the value in tenths
DecodeFloatBg(buffer, offset) ==
    IF offset >= Len(buffer) THEN Thrown(0)
    ELSE DecodeSignedVarInt(buffer, offset)

\* decodeFloat(buffer, offset, true) of decompressBg.js: the value in
\* thousandths
DecodeOpacityBg(buffer, offset) ==
    IF offset >= Len(buffer) THEN Thrown(0)
    ELSE DecodeVarInt(buffer, offset)

ReadColorBg(buffer, st) == ReadField(st, DecodeColorBg(buffer, st.offset))
ReadFloatBg(buffer, st) == ReadField(st, DecodeFloatBg(buffer, st.offset))
ReadOpacityBg(buffer, st) == ReadField(st, DecodeOpacityBg(buffer, st.offset))

\* what a record decompressor returns, or that it threw
ElementThrown == [thrown |-> TRUE, element |-> <<>>, bytesRead |-> 0]
ElementResult(e, n) == [thrown |-> FALSE, element |-> e, bytesRead |-> n]

\* decompressMetadata: the string read is the element
MetadataAfterLength(buffer, offset, len) ==
    IF len.thrown THEN ElementThrown
    ELSE ElementResult(ReadChars(buffer, offset + 1 + len.bytesRead, len.value),
                       1 + len.bytesRead + len.value)
DecompressMetadataBg(buffer, offset) ==
    MetadataAfterLength(buffer, offset, DecodeVarInt(buffer, offset + 1))

\* decompressRect
RectElement(f) ==
    StrRectX \o ToFixed2Bg(f[2].value) \o StrY \o ToFixed2Bg(f[3].value)
        \o StrWidth \o ToFixed2Bg(f[4].value)
        \o StrHeight \o ToFixed2Bg(f[5].value)
        \o StrFill \o f[1].color \o StrQuote \o StrElementClose
RectAfterFields(offset, st) ==
    IF st.thrown THEN ElementThrown
    ELSE ElementResult(RectElement(st.fields), st.offset - offset)
DecompressRectBg(buffer, offset) ==
    RectAfterFields(offset,
        ReadFloatBg(buffer, ReadFloatBg(buffer, ReadFloatBg(buffer,
            ReadFloatBg(buffer, ReadColorBg(buffer, ReadStart(offset + 1)))))))

\* decompressCircles: the body of the loop
CircleFields(buffer, offset) ==
    ReadFloatBg(buffer, ReadFloatBg(buffer, ReadFloatBg(buffer,
        ReadOpacityBg(buffer, ReadStart(offset)))))
CirclePosition(i, prev, f) ==
    IF i = 0 THEN <<f[2].value, f[3].value, f[4].value>>
    ELSE <<prev[1] + f[2].value, prev[2] + f[3].value, prev[3] + f[4].value>>
CircleElement(fill, pos, opacity) ==
    StrCircleCx \o ToFixed2Bg(pos[1]) \o StrCy \o ToFixed2Bg(pos[2])
        \o StrR \o ToFixed2Bg(pos[3]) \o StrFill \o fill \o StrQuote
        \o (IF opacity < 990 THEN StrOpacity \o ToFixed3Bg(opacity) \o StrQuote
            ELSE <<>>)
        \o StrElementClose

\* the circles decoded and the offset reached; a read that throws ends the
\* loop with the offset that the reads before it reached
RECURSIVE CirclesLoop(_, _, _, _, _, _, _)
CircleStep(buffer, fill, count, i, prev, circles, st) ==
    IF st.thrown THEN [elements |-> circles, offset |-> st.offset]
    ELSE CirclesLoop(buffer, fill, count, i + 1, st.offset,
                     CirclePosition(i, prev, st.fields),
                     Append(circles,
                            CircleElement(fill, CirclePosition(i, prev, st.fields),
                                          st.fields[1].value)))
CirclesLoop(buffer, fill, count, i, offset, prev, circles) ==
    IF i < count /\ offset < Len(buffer)
    THEN CircleStep(buffer, fill, count, i, prev, circles,
                    CircleFields(buffer, offset))
    ELSE [elements |-> circles, offset |-> offset]

\* decompressCircles: {elements, bytesRead}
CirclesResult(offset, r) ==
    [elements |-> r.elements, bytesRead |-> r.offset - offset]
CirclesAfterHeader(buffer, offset, st) ==
    IF st.thrown THEN [elements |-> <<>>, bytesRead |-> 0]
    ELSE CirclesResult(offset,
             CirclesLoop(buffer, st.fields[1].color, st.fields[2].value, 0,
                         st.offset, <<0, 0, 0>>, <<>>))
DecompressCirclesBg(buffer, offset) ==
    CirclesAfterHeader(buffer, offset,
        ReadVarInt(buffer, ReadColorBg(buffer, ReadStart(offset + 1))))

\* decompressGradient: the stops
StopFields(buffer, offset) ==
    ReadColorBg(buffer, ReadOpacityBg(buffer, ReadFloatBg(buffer, ReadStart(offset))))
StopElement(f) ==
    StrStopOffset \o NumberToString(10 * f[1].value) \o StrStopColor
        \o f[3].color \o StrQuote
        \o (IF f[2].value < 990
            THEN StrStopOpacity \o ToFixed3Bg(f[2].value) \o StrQuote
            ELSE <<>>)
        \o StrElementClose
RECURSIVE StopsLoop(_, _, _, _, _)
StopStep(buffer, count, i, stops, st) ==
    IF st.thrown THEN [thrown |-> TRUE, stops |-> stops, offset |-> st.offset]
    ELSE StopsLoop(buffer, count, i + 1, st.offset,
                   Append(stops, StopElement(st.fields)))
StopsLoop(buffer, count, i, offset, stops) ==
    IF i < count /\ offset < Len(buffer)
    THEN StopStep(buffer, count, i, stops, StopFields(buffer, offset))
    ELSE [thrown |-> FALSE, stops |-> stops, offset |-> offset]

\* stops.join('\n    ')
RECURSIVE JoinStops(_)
JoinStops(stops) ==
    IF stops = <<>> THEN <<>>
    ELSE IF Len(stops) = 1 THEN stops[1]
    ELSE stops[1] \o StrStopsJoin \o JoinStops(Tail(stops))

GradientType(code) == IF code = 1 THEN StrRadialGradient ELSE StrLinearGradient
GradientElement(gradientType, gradientId, stops) ==
    StrDefsOpen \o gradientType \o StrId \o gradientId \o StrStopsOpen
        \o JoinStops(stops) \o StrGradientClose \o gradientType \o StrDefsClose

\* decompressGradient: {element, bytesRead}; whatever is thrown inside is
\* caught and gives the default gradient with bytesRead 0
GradientAfterStops(offset, gradientId, code, r) ==
    IF r.thrown THEN ElementResult(CreateDefaultGalaxyGradient, 0)
    ELSE ElementResult(GradientElement(GradientType(code), gradientId, r.stops),
                       r.offset - offset)
GradientAfterCounts(buffer, offset, gradientId, st) ==
    IF st.thrown THEN ElementResult(CreateDefaultGalaxyGradient, 0)
    ELSE GradientAfterStops(offset, gradientId, st.fields[1].value,
             StopsLoop(buffer, st.fields[2].value, 0, st.offset, <<>>))
GradientAfterLength(buffer, offset, len) ==
    IF len.thrown THEN ElementResult(CreateDefaultGalaxyGradient, 0)
    ELSE GradientAfterCounts(buffer, offset,
             ReadChars(buffer, offset + 1 + len.bytesRead, len.value),
             ReadVarInt(buffer, ReadVarInt(buffer,
                 ReadStart(offset + 1 + len.bytesRead + len.value))))
DecompressGradientBg(buffer, offset) ==
    GradientAfterLength(buffer, offset, DecodeVarInt(buffer, offset + 1))

\* offset += 1 and the while loop that skips to the next byte from 0 to 3
RECURSIVE SkipToMarker(_, _)
SkipToMarker(buffer, offset) ==
    IF offset < Len(buffer) /\ buffer[offset + 1] \notin {0, 1, 2, 3}
    THEN SkipToMarker(buffer, offset + 1)
    ELSE offset
AfterRecord(buffer, offset, bytesRead) ==
    IF bytesRead > 0 THEN offset + bytesRead
    ELSE SkipToMarker(buffer, offset + 1)

\* one iteration of the while loop of decompressSVG: s holds viewBox, rect,
\* circles, defs and offset, and whether an exception has ended the loop
MetadataCase(s, r) ==
    IF r.thrown THEN [s EXCEPT !.thrown = TRUE]
    ELSE [s EXCEPT !.viewBox = r.element, !.offset = s.offset + r.bytesRead]
RectCase(s, r) ==
    IF r.thrown THEN [s EXCEPT !.thrown = TRUE]
    ELSE [s EXCEPT !.rect = r.element, !.offset = s.offset + r.bytesRead]
CirclesCase(buffer, s, r) ==
    [s EXCEPT !.circles = s.circles \o r.elements,
              !.offset = AfterRecord(buffer, s.offset, r.bytesRead)]
GradientCase(buffer, s, r) ==
    [s EXCEPT !.defs = r.element,
              !.offset = AfterRecord(buffer, s.offset, r.bytesRead)]
DecodePart(buffer, s) ==
    CASE buffer[s.offset + 1] = 0 ->
             MetadataCase(s, DecompressMetadataBg(buffer, s.offset))
      [] buffer[s.offset + 1] = 1 ->
             RectCase(s, DecompressRectBg(buffer, s.offset))
      [] buffer[s.offset + 1] = 2 ->
             CirclesCase(buffer, s, DecompressCirclesBg(buffer, s.offset))
      [] buffer[s.offset + 1] = 3 ->
             GradientCase(buffer, s, DecompressGradientBg(buffer, s.offset))
      [] OTHER -> [s EXCEPT !.offset = Len(buffer)]

\* the locals of decompressSVG before the loop
PartsStart ==
    [viewBox |-> StrDefaultViewBox, rect |-> <<>>, circles |-> <<>>,
     defs |-> <<>>, offset |-> 2, thrown |-> FALSE]

\* ensureCoreGradient
EnsureCoreGradient(defs) ==
    IF ~Includes(defs, StrCoreGlow) THEN CreateDefaultGalaxyGradient ELSE defs

\* Number(piece) for the pieces of a viewBox: the empty string is 0 and a
\* piece without a digit is NaN (the viewBoxes decoded here hold integers)
NumberIsNaN(parts, i) == i > Len(parts) \/ (parts[i] # <<>> /\ IsNaNInt(parts[i]))
NumberAt(parts, i) == IF parts[i] = <<>> THEN 0 ELSE ParseInt(parts[i])

\* ((parts[i] + parts[j]) / 2).toFixed(1)
CenterText(parts, i, j) ==
    IF NumberIsNaN(parts, i) \/ NumberIsNaN(parts, j) THEN StrNaN
    ELSE HalfToFixed1(NumberAt(parts, i) + NumberAt(parts, j))

\* ensureCoreGlowCircle: the circles after the call
CoreCircle(parts) ==
    StrCircleCx \o CenterText(parts, 1, 3) \o StrCy \o CenterText(parts, 2, 4)
        \o StrCoreCircleTail
IsCoreGlowCircle(circles, i) == Includes(circles[i], StrUrlCoreGlow)
CoreGlowIndex(circles) ==
    IF \E i \in 1 .. Len(circles) : IsCoreGlowCircle(circles, i)
    THEN CHOOSE i \in 1 .. Len(circles) :
             /\ IsCoreGlowCircle(circles, i)
             /\ \A j \in 1 .. i - 1 : ~IsCoreGlowCircle(circles, j)
    ELSE 0
PutCoreCircle(circles, index, coreCircle) ==
    IF index > 0 THEN [circles EXCEPT ![index] = coreCircle]
    ELSE Append(circles, coreCircle)
EnsureCoreGlowCircle(circles, defs, viewBox) ==
    IF Includes(defs, StrCoreGlow)
    THEN PutCoreCircle(circles, CoreGlowIndex(circles), CoreCircle(SplitRuns(viewBox)))
    ELSE circles

\* the values Math.random() returns in one run, in quarters: the k-th call
\* (from 0) of the run whose stream is rand
MaxStep == 1
RandomStreams == [seed : 0 .. 3, step : 0 .. MaxStep]
Random(rand, k) == (rand.seed + rand.step * k) % 4

\* (Math.random() * width).toFixed(1)
RandomCoordinate(parts, i, q) ==
    IF NumberIsNaN(parts, i) THEN StrNaN
    ELSE HundredthsToFixed1(25 * q * NumberAt(parts, i))

\* (Math.random() * 1.5 + 0.5).toFixed(1)
RandomSize(q) == FixedText(FALSE, (500 + 375 * q + 50) \div 100, 10, 1)

\* (Math.random() * 0.8 + 0.2).toFixed(2)
RandomOpacity(q) == FixedText(FALSE, 20 + 20 * q, 100, 2)

\* addBackgroundStars: the i-th star pushed (from 0), and the circles after
\* the call
Star(parts, rand, i) ==
    StrCircleCx \o RandomCoordinate(parts, 3, Random(rand, 4 * i))
        \o StrCy \o RandomCoordinate(parts, 4, Random(rand, 4 * i + 1))
        \o StrR \o RandomSize(Random(rand, 4 * i + 2))
        \o StrStarFill \o RandomOpacity(Random(rand, 4 * i + 3))
        \o StrQuote \o StrElementClose
StarCount == 50
Stars(parts, rand) == [i \in 1 .. StarCount |-> Star(parts, rand, i - 1)]
AddBackgroundStars(circles, viewBox, rand) ==
    IF Len(circles) < 50 THEN circles \o Stars(SplitRuns(viewBox), rand)
    ELSE circles

\* circles.forEach(circle => { svgContent += circle }): the circles from lo
\* to hi, one after the other
RECURSIVE ConcatElements(_, _, _)
ConcatElements(elements, lo, hi) ==
    IF lo > hi THEN <<>>
    ELSE IF lo = hi THEN elements[lo]
    ELSE ConcatElements(elements, lo, (lo + hi) \div 2)
             \o ConcatElements(elements, (lo + hi) \div 2 + 1, hi)

\* decompressSVG from the default rect on
SvgContent(viewBox, defs, rect, count, circles) ==
    StrSvgOpen \o viewBox \o StrTagOpenEnd \o defs
        \o (IF rect = <<>> THEN StrDefaultRect ELSE rect)
        \o ConcatElements(circles, 1, count)
        \o StrSvgClose

\* the number of circles after addBackgroundStars
CountWithStars(circles) ==
    IF Len(circles) < 50 THEN Len(circles) + StarCount ELSE Len(circles)

\* decompressSVG after ensureCoreGlowCircle
SvgWithStars(s, rand) ==
    SvgContent(s.viewBox, s.defs, s.rect, CountWithStars(s.circles),
               AddBackgroundStars(s.circles, s.viewBox, rand))

\* decompressSVG from the end of the loop to ensureCoreGlowCircle
EnsureCore(s) ==
    [s EXCEPT !.defs = EnsureCoreGradient(s.defs),
              !.circles = EnsureCoreGlowCircle(s.circles,
                                               EnsureCoreGradient(s.defs),
                                               s.viewBox)]

-----------------------------------------------------------------------------
(* Two runs of decompressSVG of decompressBg.js on the same compressed     *)
(* data.  Each run draws its own stream of Math.random values.             *)

\* the records of a compressed galaxy
MetadataRecordBg(viewBox) == <<0>> \o EncodeVarInt(Len(Utf8(viewBox))) \o Utf8(viewBox)
RectRecordBg ==
    <<1, 1>> \o EncodeSignedVarInt(0) \o EncodeSignedVarInt(0)
        \o EncodeSignedVarInt(4200) \o EncodeSignedVarInt(4200)
\* one circle: opacity 0.5, the centre moved by 1.5 and -0.5, the radius as
\* the circle before
CircleBytesBg ==
    EncodeVarInt(500) \o EncodeSignedVarInt(15) \o EncodeSignedVarInt(0 - 5)
        \o EncodeSignedVarInt(0)
RECURSIVE Repeat(_, _)
Repeat(bytes, n) == IF n = 0 THEN <<>> ELSE bytes \o Repeat(bytes, n - 1)
CircleGroupBg(fill, n) == <<2>> \o fill \o EncodeVarInt(n) \o Repeat(CircleBytesBg, n)
GradientRecordBg ==
    <<3>> \o EncodeVarInt(Len(StrCoreGlow)) \o Utf8(StrCoreGlow) \o <<1, 2>>
        \o EncodeSignedVarInt(0) \o EncodeVarInt(1000) \o <<254, 255, 165, 0>>
        \o EncodeSignedVarInt(10) \o EncodeVarInt(0) \o <<254, 232, 168, 82>>

\* n circles in groups of at most MaxGroup
MaxGroup == 3
RECURSIVE CircleGroupsBg(_, _)
CircleGroupsBg(fill, n) ==
    IF n <= MaxGroup THEN CircleGroupBg(fill, n)
    ELSE CircleGroupBg(fill, MaxGroup) \o CircleGroupsBg(fill, n - MaxGroup)

StrViewBoxWide == <<"0", " ", "0", " ", "1", "0", "0", " ", "5", "0">>

\* the numbers of circles of the groups decoded
GroupSizes == {0, 1, 2, 48, 49, 50}

CompressedSamples ==
    { <<>>, <<3>>, <<3, 0>>, <<3, 1, 9>>,
      <<3, 1>> \o MetadataRecordBg(StrDefaultViewBox),
      <<3, 2>> \o MetadataRecordBg(StrViewBoxWide) \o RectRecordBg,
      <<3, 2>> \o MetadataRecordBg(StrViewBoxWide) \o <<1, 1, 0>>,
      <<3, 2>> \o MetadataRecordBg(StrDefaultViewBox) \o <<2, 1, 2>>
          \o CircleBytesBg \o <<244, 3>>,
      <<3, 3>> \o MetadataRecordBg(StrDefaultViewBox) \o GradientRecordBg
          \o CircleGroupBg(<<255>> \o Utf8(StrCoreGlow), 2),
      <<3, 2>> \o MetadataRecordBg(StrDefaultViewBox) \o <<3, 200>> \o <<9, 1, 0>> }
    \cup { <<3, 3>> \o MetadataRecordBg(StrDefaultViewBox) \o RectRecordBg
               \o CircleGroupsBg(<<254, 255, 0, 0>>, n) : n \in GroupSizes }

StartRuns ==
    /\ rpc = "start"
    /\ rbuf \in CompressedSamples
    /\ rparts = PartsStart
    /\ rresults = <<>>

\* decompressSVG up to the loop; compressed data too short for a header
\* gives the fallback galaxy
BeginRun ==
    /\ rpc = "start"
    /\ Len(rresults) < 2
    /\ IF Len(rbuf) < 2
       THEN /\ rresults' = Append(rresults, CreateFallbackGalaxy)
            /\ UNCHANGED <<rpc, rparts>>
       ELSE /\ rpc' = "loop"
            /\ rparts' = PartsStart
            /\ UNCHANGED rresults
    /\ UNCHANGED <<rbuf, othersRuns>>

\* one iteration of the loop
DecodePartStep ==
    /\ rpc = "loop"
    /\ rparts.offset < Len(rbuf) /\ ~rparts.thrown
    /\ rparts' = DecodePart(rbuf, rparts)
    /\ UNCHANGED <<rpc, rbuf, rresults, othersRuns>>

\* after the loop: ensureCoreGradient and ensureCoreGlowCircle
EnsureCoreStep ==
    /\ rpc = "loop"
    /\ rparts.offset >= Len(rbuf) \/ rparts.thrown
    /\ rparts' = EnsureCore(rparts)
    /\ rpc' = "stars"
    /\ UNCHANGED <<rbuf, rresults, othersRuns>>

\* addBackgroundStars and the text returned
FinishRun ==
    /\ rpc = "stars"
    /\ \E rand \in RandomStreams :
           rresults' = Append(rresults, SvgWithStars(rparts, rand))
    /\ rpc' = "start"
    /\ UNCHANGED <<rbuf, rparts, othersRuns>>

NextRuns == BeginRun \/ DecodePartStep \/ EnsureCoreStep \/ FinishRun
InitRuns == StartRuns /\ OthersIdleRuns
SpecRuns == InitRuns /\ [][NextRuns]_vars

\* C28: decoding is deterministic: two runs of decompressSVG on the same
\* input return the same SVG text, in the Bg decoder too when fewer than 50
\* circles were decoded.
C28_Deterministic == Len(rresults) = 2 => rresults[1] = rresults[2]

StrStarAtZero ==
    <<"<", "c", "i", "r", "c", "l", "e", " ", "c", "x", "=", "\"", "0", ".",
      "0", "\"", " ", "c", "y", "=", "\"", "0", ".", "0", "\"", " ", "r",
      "=", "\"", "0", ".", "5", "\"", " ", "f", "i", "l", "l", "=", "\"",
      "#", "F", "F", "F", "F", "F", "F", "\"", " ", "o", "p", "a", "c", "i",
      "t", "y", "=", "\"", "0", ".", "2", "0", "\"", "/", ">">>
StrStarAtQuarter ==
    <<"<", "c", "i", "r", "c", "l", "e", " ", "c", "x", "=", "\"", "1", "0",
      "5", ".", "0", "\"", " ", "c", "y", "=", "\"", "1", "0", "5", ".", "0",
      "\"", " ", "r", "=", "\"", "0", ".", "9", "\"", " ", "f", "i", "l",
      "l", "=", "\"", "#", "F", "F", "F", "F", "F", "F", "\"", " ", "o", "p",
      "a", "c", "i", "t", "y", "=", "\"", "0", ".", "4", "0", "\"", "/", ">">>

\* the header alone, no circle decoded: the first run draws 0 from
\* Math.random and the second 0.25, and the stars they add differ
C28_Divergence ==
    /\ Len(rresults) = 2
    /\ rbuf = <<3, 0>>
    /\ Len(rparts.circles) = 1
    /\ Includes(rresults[1], StrStarAtZero)
    /\ ~Includes(rresults[2], StrStarAtZero)
    /\ Includes(rresults[2], StrStarAtQuarter)
    /\ rresults[1] # rresults[2]

\* the two runs agree when the data is too short to hold a header, and when
\* 50 circles or more are in the list when addBackgroundStars is called
C28_FiftyCircles ==
    (Len(rresults) = 2 /\ (Len(rbuf) < 2 \/ Len(rparts.circles) >= 50))
        => rresults[1] = rresults[2]

\* 49 circles decoded and the core circle make 50: no star is added
C28_NoStars ==
    /\ Len(rresults) = 2
    /\ Len(rparts.circles) = 50
    /\ ~Includes(rparts.circles[49], StrUrlCoreGlow)
    /\ Includes(rparts.circles[50], StrUrlCoreGlow)
    /\ ~Includes(rresults[1], StrStarFill)
    /\ rresults[1] = rresults[2]

-----------------------------------------------------------------------------
(* The viewBox section of compress.js and decompress.js as a state         *)
(* machine: a viewBox of four integers is encoded by processViewBox, the   *)
(* bytes of the next section follow, and decodeViewBox reads at offset 0.  *)

\* origins from -DenseView to DenseView and sizes from 0 to DenseView, and
\* the ends of the ranges
DenseView == 2
Origins == ((0 - DenseView) .. DenseView) \cup {SignedLimit - 1, 1 - SignedLimit}
Sizes == (0 .. DenseView) \cup {420, VarIntLimit - 1}

\* 'x y w h'
ViewBoxOf(x, y, w, h) ==
    NumberToString(x) \o StrBlank \o NumberToString(y) \o StrBlank
        \o NumberToString(w) \o StrBlank \o NumberToString(h)

IntegerViewBoxes ==
    { ViewBoxOf(x, y, w, h) : x \in Origins, y \in Origins, w \in Sizes, h \in Sizes }

StartViewBox ==
    /\ xpc = "start"
    /\ xview \in IntegerViewBoxes
    /\ xrest \in {<<>>, <<3, 128>>}
    /\ xbuf = <<>>
    /\ xres = <<>>

CallProcessViewBox ==
    /\ xpc = "start"
    /\ xbuf' = ProcessViewBox(xview) \o xrest
    /\ xpc' = "encoded"
    /\ UNCHANGED <<xview, xrest, xres, othersViewBox>>

CallDecodeViewBox ==
    /\ xpc = "encoded"
    /\ xres' = DecodeViewBox(xbuf, 0)
    /\ xpc' = "decoded"
    /\ UNCHANGED <<xview, xrest, xbuf, othersViewBox>>

NextViewBox == CallProcessViewBox \/ CallDecodeViewBox
InitViewBox == StartViewBox /\ OthersIdleViewBox
SpecViewBox == InitViewBox /\ [][NextViewBox]_vars

\* C29: for every viewBox of four integers 'x y w h' separated by single
\* spaces, with |x|, |y| < 2^27 and 0 <= w, h < 2^28,
\* decodeViewBox(processViewBox(v)) returns the string v and bytesRead equal
\* to the length of the encoded section, whichever format the encoder chose.
C29_ViewBoxRoundTrip ==
    xpc = "decoded" =>
        /\ ~xres.thrown
        /\ xres.viewBox = xview
        /\ xres.bytesRead = Len(xbuf) - Len(xrest)

\* the full format at the ends of the ranges, before the next section
C29_Witness ==
    /\ xpc = "decoded"
    /\ xview = ViewBoxOf(1 - SignedLimit, SignedLimit - 1, VarIntLimit - 1, 0)
    /\ xrest = <<3, 128>>
    /\ xbuf = <<3, 253, 255, 255, 127, 254, 255, 255, 127, 255, 255, 255, 127, 0,
                3, 128>>
    /\ xres = ViewBoxResult(xview, 14)

\* the square and the rectangle at 0 0
C29_Square ==
    /\ xpc = "decoded"
    /\ xview = <<"0", " ", "0", " ", "4", "2", "0", " ", "4", "2", "0">>
    /\ xbuf = <<1, 164, 3>>
    /\ xres = ViewBoxResult(xview, 3)
C29_Rectangle ==
    /\ xpc = "decoded"
    /\ xview = <<"0", " ", "0", " ", "4", "2", "0", " ", "2">>
    /\ xbuf = <<2, 164, 3, 2, 3, 128>>
    /\ xres = ViewBoxResult(xview, 4)

\* four integers separated by single spaces never take the string format
C29_NeverString == xpc \in {"encoded", "decoded"} => xbuf[1] \in {1, 2, 3}

-----------------------------------------------------------------------------
(* The path count of compress.js and decompress.js as a state machine:     *)
(* compressSVG is given jcount paths, and the path loop of decompressSVG   *)
(* runs one pass at a time over the buffer of the compressed data.         *)

\* the greatest number of paths extracted
MaxPathCount == 258
PathCounts == (0 .. 2) \cup (254 .. MaxPathCount)

\* Buffer.concat of n buffers that hold the same bytes
RepeatBytes(bytes, n) ==
    [k \in 1 .. n * Len(bytes) |-> bytes[((k - 1) % Len(bytes)) + 1]]

\* the combinedBuffer of compressSVG for n paths equal to p
CombinedBuffer(viewBox, p, n) ==
    <<3, ToByte(n)>> \o ProcessViewBox(viewBox) \o RepeatBytes(CompressPath(p), n)

CountedPaths ==
    { [d |-> <<CmdToken("M"), NumToken(0), NumToken(0)>>,
       fill |-> <<"#", "0", "0", "0", "0", "0", "0">>, stroke |-> StrNone,
       opacity |-> 1000, strokeWidth |-> 0],
      [d |-> <<CmdToken("M"), NumToken(1000), NumToken(0), CmdToken("L"),
               NumToken(0), NumToken(1000), CmdToken("Z")>>,
       fill |-> StrNone, stroke |-> <<"#", "F", "F", "0", "0", "0", "0">>,
       opacity |-> 500, strokeWidth |-> 150] }

StartCount ==
    /\ jpc = "start"
    /\ jpath \in CountedPaths
    /\ jcount \in PathCounts
    /\ jbuf = <<>>
    /\ joffset = 0
    /\ jdecoded = 0

\* compressSVG, up to the combined buffer
CallCompressSVGCount ==
    /\ jpc = "start"
    /\ jbuf' = CombinedBuffer(StrDefaultViewBox, jpath, jcount)
    /\ jpc' = "compressed"
    /\ UNCHANGED <<jpath, jcount, joffset, jdecoded, othersCount>>

\* decompressSVG, from the buffer to the start of the path loop
BeginDecompressSVG ==
    /\ jpc = "compressed"
    /\ Len(jbuf) >= 2 /\ ~DecodeViewBox(jbuf, 2).thrown
    /\ joffset' = 2 + DecodeViewBox(jbuf, 2).bytesRead
    /\ jpc' = "paths"
    /\ UNCHANGED <<jpath, jcount, jbuf, jdecoded, othersCount>>

\* one pass of the path loop, i being the number of paths pushed
DecodePathPass ==
    /\ jpc = "paths"
    /\ jdecoded < jbuf[2] /\ joffset < Len(jbuf)
    /\ IF DecodePathRecord(jbuf, joffset).thrown
       THEN jpc' = "done" /\ UNCHANGED <<joffset, jdecoded>>
       ELSE /\ joffset' = DecodePathRecord(jbuf, joffset).offset
            /\ jdecoded' = jdecoded + 1
            /\ UNCHANGED jpc
    /\ UNCHANGED <<jpath, jcount, jbuf, othersCount>>

\* the end of the path loop
EndPathLoop ==
    /\ jpc = "paths"
    /\ ~(jdecoded < jbuf[2] /\ joffset < Len(jbuf))
    /\ jpc' = "done"
    /\ UNCHANGED <<jpath, jcount, jbuf, joffset, jdecoded, othersCount>>

NextCount ==
    CallCompressSVGCount \/ BeginDecompressSVG \/ DecodePathPass \/ EndPathLoop
InitCount == StartCount /\ OthersIdleCount
SpecCount == InitCount /\ [][NextCount]_vars

\* C30: the number of path elements in decompressSVG(compressSVG(svg))
\* equals the number of paths the compressor extracted, for every number of
\* paths including more than 255.
C30_PathCountPreserved == jpc = "done" => jdecoded = jcount

\* 256 paths: the header byte is 0, and the loop ends before its first pass
\* with every path record unread
C30_Divergence ==
    /\ jpc = "done"
    /\ jcount = 256
    /\ jbuf[2] = 0
    /\ joffset = 5
    /\ Len(jbuf) > joffset
    /\ jdecoded = 0

\* up to 255 paths every path comes back, and the buffer is read to its end
C30_UpTo255 ==
    (jpc = "done" /\ jcount <= 255) => (jdecoded = jcount /\ joffset = Len(jbuf))

\* the number of paths decoded is the number extracted modulo 256
C30_Modulo256 == jpc = "done" => jdecoded = jcount % 256

C30_TwoHundredFiftyFive == jpc = "done" /\ jcount = 255 /\ jdecoded = 255

====
